---- MODULE Spec2Model ----
(***************************************************************************)
(* A model of the BigQuery CDC demo tooling (cloudymoma/bqcdc):            *)
(*   bigquery/init_bq.py   the warehouse initializer                       *)
(*   mysql/init_mysql.py   the database provisioner                        *)
(*   mysql/update_mysql.py the continuous mutation driver                  *)
(* Every external service (the BigQuery API, the gcloud CLI, the Cloud SQL *)
(* instance, the MySQL server, the file system) is part of the state; the  *)
(* outcome of a call that the program does not control is chosen with \E.  *)
(***************************************************************************)
EXTENDS Integers, Sequences, FiniteSets, TLC

VARIABLES
    config,     \* conf.yml: [present, keys]
    bq,         \* warehouse initializer processes: b -> [pc, cred, calls, ...]
    bqDataset,  \* the BigQuery dataset resource
    bqTable,    \* the BigQuery table resource
    bqCreated,  \* how many creation requests the service accepted: [dataset, table]
    pwIn,       \* the draws of the random source handed to generate_password
    pwOut,      \* the password generate_password returned from them
    prov,       \* database provisioner processes: p -> [pc, password, console, ...]
    pwFile,     \* mysql.password: [exists, content, mode]
    instance,   \* the Cloud SQL instance: [exists, rootPw, assignIp, authNets]
    mysql,      \* the MySQL server: [db, tbl, rows], rows being the committed ones
    now,        \* the MySQL server's clock, what NOW() and CURRENT_TIMESTAMP give
    mut,        \* the mutation driver: [pc, update_count, conn, cursor, ...]
    running     \* the mutation driver's global flag

vars == <<config, bq, bqDataset, bqTable, bqCreated, pwIn, pwOut,
          prov, pwFile, instance, mysql, now, mut, running>>

mutVars == <<mut, running>>

pwVars == <<pwIn, pwOut>>

provVars == <<prov, pwFile, instance, mysql, now>>

bqVars == <<bq, bqDataset, bqTable, bqCreated>>

----------------------------------------------------------------------------
(* conf.yml and the keys the programs read from it *)

GcpKeys == {"gcp.project_id", "gcp.region", "gcp.service_account_path"}

BigqueryKeys == {"bigquery.dataset", "bigquery.table_name", "bigquery.location"}

MysqlKeys == {"mysql.instance_name", "mysql.tier", "mysql.version",
              "mysql.db_name", "mysql.table_name", "mysql.root_user"}

AllKeys == GcpKeys \cup BigqueryKeys \cup MysqlKeys

\* The settings files considered: the complete one, each one lacking a single
\* key, and no file at all.
Configs ==
    {[present |-> TRUE, keys |-> AllKeys]}
    \cup {[present |-> TRUE, keys |-> AllKeys \ {k}] : k \in AllKeys}
    \cup {[present |-> FALSE, keys |-> {}]}

\* config["a"]["b"] for every key of ks succeeds
HasKeys(ks) == ks \subseteq config.keys

\* the keys init_bq.py reads (139, 149-152) and those init_mysql.py reads
\* (295, 304, 103-107, 181-182, 324)
BqKeys == {"gcp.service_account_path", "gcp.project_id"} \cup BigqueryKeys

ProvKeys == GcpKeys \cup MysqlKeys

\* the settings files a program that reads the keys `read` can tell apart: a
\* file that lacks a key the program never reads is the complete file to it
ConfigsOf(read) == {c \in Configs : ~c.present \/ (AllKeys \ c.keys) \subseteq read}

----------------------------------------------------------------------------
(* Exceptions *)

NoExc == [kind |-> "none", msg |-> <<>>]

Exc(k, m) == [kind |-> k, msg |-> m]

KeyError == Exc("KeyError", <<"key">>)

FileNotFoundError == Exc("FileNotFoundError", <<"No such file or directory">>)

\* `needle in str(e)`, a message being a sequence of phrases
Contains(msg, needle) == \E i \in 1..Len(msg) : msg[i] = needle

----------------------------------------------------------------------------
(* bigquery/init_bq.py *)

BqProcs == {1, 2}

NoDataset == [exists |-> FALSE, location |-> "", description |-> ""]

NoTable == [exists |-> FALSE, ddl |-> "", dataset |-> ""]

\* the exceptions of google.cloud.exceptions that the API calls raise
NotFound == Exc("NotFound", <<"Not found">>)

Conflict == Exc("Conflict", <<"Already Exists", ": Dataset">>)

TableConflict == Exc("Conflict", <<"Already Exists", ": Table">>)

Forbidden == Exc("Forbidden", <<"Access Denied">>)

DefaultCredentialsError == Exc("DefaultCredentialsError", <<"credentials not found">>)

\* what SIGINT raises in the main thread of a program that installs no handler
\* for it; it is no subclass of Exception
KeyboardInterrupt == Exc("KeyboardInterrupt", <<"Operation cancelled by user.">>)

BqInitProc == [pc |-> "load_config", cred |-> FALSE, calls |-> <<>>,
               dsRet |-> "none", tblRet |-> "none", dsPrior |-> FALSE,
               tblPrior |-> FALSE, dsSeen |-> NoDataset, tblSeen |-> NoTable,
               dsExc |-> NoExc, tblExc |-> NoExc, reply |-> NoExc, job |-> NoExc,
               verified |-> "none", exit |-> -1, err |-> NoExc]

\* the status of a process that an uncaught KeyboardInterrupt ends: the
\* interpreter hands the SIGINT to its default action, 128 + 2 to a shell
SigintStatus == 130

\* an exception leaves main and reaches the `except` clauses of __main__
\* (187, 190); the answer of a call in flight is lost
BqRaise(r, e) == [r EXCEPT !.pc = "except", !.err = e, !.reply = NoExc]

\* __main__ (187-192): what reached the top level is printed, a
\* KeyboardInterrupt (187-189) as the notice that the user cancelled and an
\* Exception (190-192) as an error, and the process exits with status 1
bq_except(b) ==
    /\ bq[b].pc = "except"
    /\ bq' = [bq EXCEPT ![b] = [@ EXCEPT !.pc = "exit", !.exit = 1]]
    /\ UNCHANGED <<config, bqDataset, bqTable, bqCreated, pwVars, provVars, mutVars>>

\* load_config (19-24) called from main (137)
bq_load_config(b) ==
    /\ bq[b].pc = "load_config"
    /\ bq' = [bq EXCEPT ![b] =
                IF config.present THEN [@ EXCEPT !.pc = "credentials"]
                ELSE BqRaise(@, FileNotFoundError)]
    /\ UNCHANGED <<config, bqDataset, bqTable, bqCreated, pwVars, provVars, mutVars>>

\* main (139-146): the service account file, when present, becomes the
\* process's GOOGLE_APPLICATION_CREDENTIALS
bq_credentials(b) ==
    /\ bq[b].pc = "credentials"
    /\ \E sa_exists \in BOOLEAN :
         bq' = [bq EXCEPT ![b] =
                  IF HasKeys({"gcp.service_account_path"})
                  THEN [@ EXCEPT !.pc = "read_keys", !.cred = sa_exists]
                  ELSE BqRaise(@, KeyError)]
    /\ UNCHANGED <<config, bqDataset, bqTable, bqCreated, pwVars, provVars, mutVars>>

\* main (148-152)
bq_read_keys(b) ==
    /\ bq[b].pc = "read_keys"
    /\ bq' = [bq EXCEPT ![b] =
                IF HasKeys({"gcp.project_id"} \cup BigqueryKeys)
                THEN [@ EXCEPT !.pc = "client"]
                ELSE BqRaise(@, KeyError)]
    /\ UNCHANGED <<config, bqDataset, bqTable, bqCreated, pwVars, provVars, mutVars>>

\* main (162): bigquery.Client(project=project_id)
bq_client(b) ==
    /\ bq[b].pc = "client"
    /\ \E ok \in BOOLEAN :
         bq' = [bq EXCEPT ![b] =
                  IF ok THEN [@ EXCEPT !.pc = "ds_get", !.calls = Append(@, "Client")]
                  ELSE BqRaise([@ EXCEPT !.calls = Append(@, "Client")],
                               DefaultCredentialsError)]
    /\ UNCHANGED <<config, bqDataset, bqTable, bqCreated, pwVars, provVars, mutVars>>

\* what client.get_dataset / client.get_table answer for a resource, when the
\* call itself goes through
GetMutant(resource) == NotFound

Get(resource) == IF resource.exists THEN NoExc ELSE NotFound

\* create_dataset_if_not_exists (48): `except Conflict`
IsConflictMutant(e) == FALSE

IsConflict(e) == e.kind = "Conflict"

\* create_table_if_not_exists (100-101): `"Already Exists" in str(e)`
IsAlreadyExistsMutant(e) == FALSE

IsAlreadyExists(e) == Contains(e.msg, "Already Exists")

\* create_dataset_if_not_exists (32): client.get_dataset(dataset_ref) reaches
\* the service, which answers for the dataset as it is at that moment; the
\* run waits for the answer
create_dataset_get(b) ==
    /\ bq[b].pc = "ds_get"
    /\ \E fault \in {NoExc, Forbidden} :
         bq' = [bq EXCEPT ![b] =
                  [@ EXCEPT !.pc = "ds_get_return",
                            !.calls = Append(@, "get_dataset"),
                            !.dsSeen = bqDataset,
                            !.dsPrior = \E o \in BqProcs \ {b} : bq[o].dsRet = "True",
                            !.reply = IF fault = NoExc THEN Get(bqDataset) ELSE fault]]
    /\ UNCHANGED <<config, bqDataset, bqTable, bqCreated, pwVars, provVars, mutVars>>

\* create_dataset_if_not_exists (32-38): the answer arrives; the dataset is
\* there (33-34), is not (35-36), or the call raises something else
create_dataset_get_return(b) ==
    /\ bq[b].pc = "ds_get_return"
    /\ LET e == bq[b].reply
           r == [bq[b] EXCEPT !.reply = NoExc]
       IN bq' = [bq EXCEPT ![b] =
                   IF e = NoExc THEN [r EXCEPT !.pc = "tbl_get", !.dsRet = "True"]
                   ELSE IF e = NotFound THEN [r EXCEPT !.pc = "ds_create"]
                   ELSE BqRaise([r EXCEPT !.dsRet = "raised"], e)]
    /\ UNCHANGED <<config, bqDataset, bqTable, bqCreated, pwVars, provVars, mutVars>>

\* create_dataset_if_not_exists (40-45): client.create_dataset(dataset,
\* timeout=30) reaches the service, which creates the dataset or refuses; the
\* run waits for the answer
create_dataset_create(b) ==
    /\ bq[b].pc = "ds_create"
    /\ \E fault \in {NoExc, Forbidden} :
         LET e == IF bqDataset.exists THEN Conflict ELSE fault
         IN /\ bq' = [bq EXCEPT ![b] =
                        [@ EXCEPT !.pc = "ds_create_return",
                                  !.calls = Append(@, "create_dataset"),
                                  !.reply = e]]
            /\ IF e = NoExc
               THEN /\ bqDataset' = [exists |-> TRUE, location |-> "bigquery.location",
                                     description |-> "BigQuery CDC Demo Dataset"]
                    /\ bqCreated' = [bqCreated EXCEPT !.dataset = @ + 1]
               ELSE UNCHANGED <<bqDataset, bqCreated>>
    /\ UNCHANGED <<config, bqTable, pwVars, provVars, mutVars>>

\* create_dataset_if_not_exists (45-50): the answer arrives; a Conflict
\* counts as success, anything else that is raised leaves the function
create_dataset_create_return(b) ==
    /\ bq[b].pc = "ds_create_return"
    /\ LET e == bq[b].reply
           r == [bq[b] EXCEPT !.reply = NoExc, !.dsExc = e]
       IN bq' = [bq EXCEPT ![b] =
                   IF e = NoExc \/ IsConflict(e)
                   THEN [r EXCEPT !.pc = "tbl_get", !.dsRet = "True"]
                   ELSE BqRaise([r EXCEPT !.dsRet = "raised"], e)]
    /\ UNCHANGED <<config, bqDataset, bqTable, bqCreated, pwVars, provVars, mutVars>>

\* create_table_if_not_exists (66): client.get_table(table_ref) reaches the
\* service
create_table_get(b) ==
    /\ bq[b].pc = "tbl_get"
    /\ \E fault \in {NoExc, Forbidden} :
         bq' = [bq EXCEPT ![b] =
                  [@ EXCEPT !.pc = "tbl_get_return",
                            !.calls = Append(@, "get_table"),
                            !.tblSeen = bqTable,
                            !.tblPrior = \E o \in BqProcs \ {b} : bq[o].tblRet = "True",
                            !.reply = IF fault = NoExc THEN Get(bqTable) ELSE fault]]
    /\ UNCHANGED <<config, bqDataset, bqTable, bqCreated, pwVars, provVars, mutVars>>

\* create_table_if_not_exists (66-70): the answer arrives
create_table_get_return(b) ==
    /\ bq[b].pc = "tbl_get_return"
    /\ LET e == bq[b].reply
           r == [bq[b] EXCEPT !.reply = NoExc]
       IN bq' = [bq EXCEPT ![b] =
                   IF e = NoExc THEN [r EXCEPT !.pc = "verify", !.tblRet = "True"]
                   ELSE IF e = NotFound THEN [r EXCEPT !.pc = "tbl_create"]
                   ELSE BqRaise([r EXCEPT !.tblRet = "raised"], e)]
    /\ UNCHANGED <<config, bqDataset, bqTable, bqCreated, pwVars, provVars, mutVars>>

\* create_table_if_not_exists (72-90): job = client.query(ddl) hands the DDL to
\* the service, which refuses the job (the call will raise) or runs it: the
\* table is there once the job has run, and what the job ended with is kept
\* for job.result()
create_table_query(b) ==
    /\ bq[b].pc = "tbl_create"
    /\ \E refused \in BOOLEAN, fault \in {NoExc, Forbidden} :
         LET e == IF ~bqDataset.exists THEN NotFound
                  ELSE IF bqTable.exists THEN TableConflict
                  ELSE fault
             r == [bq[b] EXCEPT !.pc = "tbl_query_return",
                                !.calls = Append(@, "query")]
         IN IF refused
            THEN /\ bq' = [bq EXCEPT ![b] = [r EXCEPT !.reply = Forbidden]]
                 /\ UNCHANGED <<bqTable, bqCreated>>
            ELSE /\ bq' = [bq EXCEPT ![b] = [r EXCEPT !.job = e]]
                 /\ IF e = NoExc
                    THEN /\ bqTable' = [exists |-> TRUE,
                                        ddl |-> "PRIMARY KEY (id) NOT ENFORCED",
                                        dataset |-> "bigquery.dataset"]
                         /\ bqCreated' = [bqCreated EXCEPT !.table = @ + 1]
                    ELSE UNCHANGED <<bqTable, bqCreated>>
    /\ UNCHANGED <<config, bqDataset, pwVars, provVars, mutVars>>

\* create_table_if_not_exists (90, 99-104): client.query returns the job, or
\* raises; nothing that a refused job raises holds "Already Exists"
create_table_query_return(b) ==
    /\ bq[b].pc = "tbl_query_return"
    /\ LET e == bq[b].reply
           r == [bq[b] EXCEPT !.reply = NoExc]
       IN bq' = [bq EXCEPT ![b] =
                   IF e = NoExc THEN [r EXCEPT !.pc = "tbl_result"]
                   ELSE IF IsAlreadyExists(e)
                   THEN [r EXCEPT !.pc = "verify", !.tblExc = e, !.tblRet = "True"]
                   ELSE BqRaise([r EXCEPT !.tblExc = e, !.tblRet = "raised"], e)]
    /\ UNCHANGED <<config, bqDataset, bqTable, bqCreated, pwVars, provVars, mutVars>>

\* create_table_if_not_exists (91): job.result() asks the service for the end
\* of the job and waits
create_table_result(b) ==
    /\ bq[b].pc = "tbl_result"
    /\ bq' = [bq EXCEPT ![b] =
                [@ EXCEPT !.pc = "tbl_result_return",
                          !.calls = Append(@, "job_result"),
                          !.reply = bq[b].job, !.job = NoExc]]
    /\ UNCHANGED <<config, bqDataset, bqTable, bqCreated, pwVars, provVars, mutVars>>

\* create_table_if_not_exists (91-104): job.result() returns when the job has
\* ended well and raises what it ended with otherwise; "Already Exists" in
\* the text of the exception counts as success, anything else is raised again
create_table_result_return(b) ==
    /\ bq[b].pc = "tbl_result_return"
    /\ LET e == bq[b].reply
           r == [bq[b] EXCEPT !.reply = NoExc, !.tblExc = e]
       IN bq' = [bq EXCEPT ![b] =
                   IF e = NoExc \/ IsAlreadyExists(e)
                   THEN [r EXCEPT !.pc = "verify", !.tblRet = "True"]
                   ELSE BqRaise([r EXCEPT !.tblRet = "raised"], e)]
    /\ UNCHANGED <<config, bqDataset, bqTable, bqCreated, pwVars, provVars, mutVars>>

\* verify_table (111): client.get_table(table_ref) reaches the service
verify_table_get(b) ==
    /\ bq[b].pc = "verify"
    /\ \E fault \in {NoExc, Forbidden} :
         bq' = [bq EXCEPT ![b] =
                  [@ EXCEPT !.pc = "verify_return",
                            !.calls = Append(@, "get_table"),
                            !.reply = IF fault = NoExc THEN Get(bqTable) ELSE fault]]
    /\ UNCHANGED <<config, bqDataset, bqTable, bqCreated, pwVars, provVars, mutVars>>

\* verify_table (111-127): the answer arrives and the function returns what
\* it found
verify_table(b) ==
    /\ bq[b].pc = "verify_return"
    /\ LET e == bq[b].reply
           r == [bq[b] EXCEPT !.reply = NoExc]
       IN bq' = [bq EXCEPT ![b] =
                   IF e = NoExc
                   THEN [r EXCEPT !.pc = "complete", !.verified = "True"]
                   ELSE IF e = NotFound
                   THEN [r EXCEPT !.pc = "complete", !.verified = "False"]
                   ELSE BqRaise(r, e)]
    /\ UNCHANGED <<config, bqDataset, bqTable, bqCreated, pwVars, provVars, mutVars>>

\* the end of main (175-181): the result of the verification is not looked
\* at, the closing lines are printed and the process ends with status 0
bq_complete(b) ==
    /\ bq[b].pc = "complete"
    /\ bq' = [bq EXCEPT ![b] = [@ EXCEPT !.pc = "exit", !.exit = 0]]
    /\ UNCHANGED <<config, bqDataset, bqTable, bqCreated, pwVars, provVars, mutVars>>

\* where a run is inside create_dataset_if_not_exists (27-50) and inside
\* create_table_if_not_exists (53-104), past the first call of each
InDatasetCall == {"ds_get_return", "ds_create", "ds_create_return"}

InTableCall == {"tbl_get_return", "tbl_create", "tbl_query_return",
                "tbl_result", "tbl_result_return"}

\* how far the step at `r` may have got when a signal arrives in it: the
\* answer of the call in flight has not arrived, or the call has raised and
\* an `except` clause of the function has taken the exception and is running:
\* `except Conflict` (48-49) after create_dataset, `except Exception as e`
\* (99-104) after client.query and job.result()
BqPartial(r) ==
    {r} \cup
    CASE r.pc = "ds_create_return" /\ IsConflict(r.reply) ->
           {[r EXCEPT !.dsExc = r.reply]}
      [] r.pc \in {"tbl_query_return", "tbl_result_return"} /\ r.reply # NoExc ->
           {[r EXCEPT !.tblExc = r.reply]}
      [] OTHER -> {}

\* SIGINT delivered to the process, between two statements or while a call
\* waits for the service's answer, which is then lost.
\*   - While main runs, the KeyboardInterrupt passes every `except` of the
\*     functions (they name NotFound, Conflict and Exception), also when it is
\*     raised inside one of these clauses, and reaches __main__ (187-189). The
\*     function it leaves has raised; before the first call of a function the
\*     run is either still in main or already inside (`inside`).
\*   - While an `except` clause of __main__ runs (188-189, 191-192), nothing
\*     catches the KeyboardInterrupt and it ends the process.
bq_interrupt(b) ==
    /\ bq[b].pc \notin {"off", "exit"}
    /\ \E inside \in BOOLEAN, q \in BqPartial(bq[b]) :
         LET inDs == q.pc \in InDatasetCall \/ (q.pc = "ds_get" /\ inside)
             inTbl == q.pc \in InTableCall \/ (q.pc = "tbl_get" /\ inside)
         IN bq' = [bq EXCEPT ![b] =
                     IF q.pc = "except"
                     THEN [q EXCEPT !.pc = "exit", !.exit = SigintStatus,
                                    !.err = KeyboardInterrupt]
                     ELSE BqRaise([q EXCEPT !.dsRet = IF inDs THEN "raised" ELSE @,
                                            !.tblRet = IF inTbl THEN "raised" ELSE @],
                                  KeyboardInterrupt)]
    /\ UNCHANGED <<config, bqDataset, bqTable, bqCreated, pwVars, provVars, mutVars>>


----------------------------------------------------------------------------
(* mysql/init_mysql.py: generate_password *)

Uppercase == {"A", "B", "C", "D", "E", "F", "G", "H", "I", "J", "K", "L", "M",
              "N", "O", "P", "Q", "R", "S", "T", "U", "V", "W", "X", "Y", "Z"}

Lowercase == {"a", "b", "c", "d", "e", "f", "g", "h", "i", "j", "k", "l", "m",
              "n", "o", "p", "q", "r", "s", "t", "u", "v", "w", "x", "y", "z"}

Digits == {"0", "1", "2", "3", "4", "5", "6", "7", "8", "9"}

Symbols == {"!", "@", "#", "$", "%", "^", "&", "*", "(", ")", "_", "+", "-", "="}

\* string.ascii_letters + string.digits + "!@#$%^&*()_+-=" (36)
Alphabet == Lowercase \cup Uppercase \cup Digits \cup Symbols

\* generate_password(length=24)
DefaultLength == 24

\* s[n:] of a Python string, s a sequence of characters
DropFirst(s, n) == SubSeq(s, n + 1, Len(s))

\* The mutant keeps one character too many of the random string: password[3:].
generate_password_keep3(length, rnd) ==
    <<rnd.upper, rnd.lower, rnd.digit, rnd.symbol>>
    \o DropFirst(SubSeq(rnd.raw, 1, length), 3)

\* generate_password (34-46). rnd holds what secrets.choice returns: raw, the
\* draws from the whole alphabet (37), and the four draws from one class each
\* (40-43). The result is a string, as a sequence of characters.
generate_password(length, rnd) ==
    <<rnd.upper, rnd.lower, rnd.digit, rnd.symbol>>
    \o DropFirst(SubSeq(rnd.raw, 1, length), 4)

\* a sequence of characters as one string
RECURSIVE Str(_)
Str(s) == IF s = <<>> THEN "" ELSE Head(s) \o Str(Tail(s))

\* length draws that are all `fill`, but `other` at position pos
Draws(length, fill, pos, other) ==
    [i \in 1..length |-> IF i = pos THEN other ELSE fill]

\* The draws generate_password is checked on: every character of the alphabet
\* at a forced position, at the first kept position and at the last one, among
\* characters of each class, with the first and the last character of each
\* class as the forced ones.
PwDraws ==
    {[raw |-> Draws(DefaultLength, fill, pos, other),
      upper |-> u, lower |-> l, digit |-> d, symbol |-> y] :
        fill \in {"A", "a", "0", "="}, pos \in {1, 4, 5, DefaultLength},
        other \in Alphabet, u \in {"A", "Z"}, l \in {"a", "z"},
        d \in {"0", "9"}, y \in {"!", "="}}

\* the call generate_password() of main (308), on its own
pw_generate ==
    /\ pwOut = <<>>
    /\ pwOut' = generate_password(DefaultLength, pwIn)
    /\ UNCHANGED <<config, bqVars, pwIn, provVars, mutVars>>

----------------------------------------------------------------------------
(* mysql/init_mysql.py: the environment of the provisioner *)

ProvProcs == {1, 2}

\* Passwords and the content of the password file are strings as sequences of
\* characters; Str makes one token of them where they are printed.
NoFile == [exists |-> FALSE, content |-> <<>>, mode |-> ""]

NoInstance == [exists |-> FALSE, rootPw |-> <<>>, assignIp |-> FALSE, authNets |-> {}]

\* the password an earlier run of the provisioner generated
OldPassword ==
    generate_password(DefaultLength,
        [raw |-> Draws(DefaultLength, "o", 5, "l"),
         upper |-> "O", lower |-> "l", digit |-> "0", symbol |-> "_"])

\* an instance left by an earlier run of the provisioner
OldInstance == [exists |-> TRUE, rootPw |-> OldPassword,
                assignIp |-> TRUE, authNets |-> {"0.0.0.0/0"}]

\* the address `describe` prints for the instance: empty without a public IP
InstanceIp == IF instance.exists /\ instance.assignIp THEN "203.0.113.7" ELSE ""

FreshMysql == [db |-> FALSE, tbl |-> FALSE, rows |-> {}]

\* create_database_and_table (248-253)
descriptions ==
    <<"Wireless Mouse", "Mechanical Keyboard", "USB-C Hub", "Laptop Stand",
      "Webcam HD", "Noise-Canceling Headphones", "Portable SSD",
      "Monitor Light Bar", "Ergonomic Chair", "Standing Desk Mat">>

\* range(1, 11) of the seeding loop (255) and randint(1, 10) of the mutator
FirstId == 1

LastId == 10

\* A price as a float is counted in eighths of a currency unit (every such
\* value is an exact binary float); a DECIMAL(10, 2) price is counted in cents.
\* random.uniform(10.0, 500.0)
PriceLow == 80

PriceHigh == 4000

\* the floats a random.uniform draw is taken from: 1.0, 10.125, 500.0, 501.0
PriceSamples == {8, 81, 4000, 4008}

uniform_from1(lo, hi) == {x \in PriceSamples : 8 <= x /\ x <= hi}

\* random.uniform(lo, hi): the draws it can return
uniform(lo, hi) == {x \in PriceSamples : lo <= x /\ x <= hi}

\* round(x, 2) of an exact float x, in cents: the nearest cent, the even one
\* when x lies halfway between two cents
round2(x) ==
    LET halfcents == 25 * x
        down == (halfcents - 1) \div 2
    IN IF halfcents % 2 = 0 THEN halfcents \div 2
       ELSE IF down % 2 = 0 THEN down ELSE down + 1

Item(id, desc, price, t) ==
    [id |-> id, description |-> desc, price |-> price,
     created_at |-> t, updated_at |-> t]

\* the table as a complete seeding leaves it, prices being those of `draw`
SeededRows(draw, t) ==
    {Item(i, descriptions[i], round2(draw), t) : i \in FirstId..LastId}

Ids(rows) == {r.id : r \in rows}

----------------------------------------------------------------------------
(* mysql/init_mysql.py: the provisioner *)

RuntimeError == Exc("RuntimeError", <<"gcloud command failed">>)

TimeoutError == Exc("TimeoutError", <<"Instance did not become ready in time">>)

\* mysql.connector.Error and the subclasses met here
InterfaceError == Exc("MySQLError", <<"Can't connect to MySQL server">>)

OperationalError == Exc("MySQLError", <<"Lost connection to MySQL server">>)

IntegrityError == Exc("MySQLError", <<"Duplicate entry for key PRIMARY">>)

IsMySQLError(e) == e.kind = "MySQLError"

\* wait_for_instance_ready(project_id, instance_name, max_wait=600)
max_wait == 600

\* time.sleep(10) of wait_for_instance_ready (85)
poll_delay == 10

\* create_database_and_table (194-195)
max_retries == 10

retry_delay == 10

\* the longest a `describe` call of the readiness poll takes, in seconds
MaxCallSecs == 1

\* what a readiness poll can observe: a failed call prints nothing
PollResults == {[rc |-> 1, stdout |-> ""], [rc |-> 0, stdout |-> "PENDING_CREATE"],
                [rc |-> 0, stdout |-> "RUNNABLE"]}

\* the random draws of the provisioner's generate_password() call
ProvDraws ==
    {[raw |-> Draws(DefaultLength, "x", 5, "Q"),
      upper |-> "A", lower |-> "b", digit |-> "1", symbol |-> "!"],
     [raw |-> Draws(DefaultLength, "7", DefaultLength, "-"),
      upper |-> "Z", lower |-> "y", digit |-> "9", symbol |-> "="]}

ProvInitProc ==
    [pc |-> "load_config", password |-> <<>>, host |-> "",
     cmd |-> "", rc |-> 0, probed |-> "none", exists |-> "none",
     site |-> 0, waited |-> 0, observed |-> "",
     attempt |-> 0, connects |-> 0, slept |-> 0,
     conn |-> "none", cursor |-> "none", i |-> 0, txn |-> {},
     events |-> <<>>, console |-> {}, exit |-> -1, pending |-> NoExc, err |-> NoExc]

\* a process that is not run
ProvOff == [ProvInitProc EXCEPT !.pc = "off"]

\* an exception leaves main: it reaches the `except` clauses of __main__
\* (344-349), which have not run yet
ProvRaise(r, e) == [r EXCEPT !.pc = "except", !.err = e]

\* __main__ (345, 348): what the handler prints, the notice that the user
\* cancelled for a KeyboardInterrupt and the error for an Exception
HandlerLine(e) ==
    IF e = KeyboardInterrupt THEN <<"[INFO]", "Operation cancelled by user.">>
    ELSE <<"[ERROR]", e.kind>>

\* run_gcloud (54): a failed command raises unless the caller opts out
GcloudFailed(check, rc) == check /\ rc # 0

\* the places of the program that call run_gcloud
GcloudPcs == {"set_project", "probe", "set_password", "create", "wait_poll",
              "patch_ip", "patch_net", "get_ip"}

\* the arguments of the run_gcloud call at the place where `r` is: main (305),
\* check_instance_exists (62-65), create_mysql_instance (124-130), (135-150),
\* wait_for_instance_ready (75-79), create_mysql_instance (156-161),
\* (166-171), and get_instance_ip (91-94)
GcloudArgs(r) ==
    CASE r.pc = "set_project" -> <<"config", "set", "project", "gcp.project_id">>
      [] r.pc = "probe" ->
           <<"sql", "instances", "describe", "mysql.instance_name",
             "--project", "gcp.project_id", "--format", "value(name)">>
      [] r.pc = "set_password" ->
           <<"sql", "users", "set-password", "root", "--host", "%",
             "--instance", "mysql.instance_name", "--project", "gcp.project_id",
             "--password", Str(r.password)>>
      [] r.pc = "create" ->
           <<"sql", "instances", "create", "mysql.instance_name",
             "--project", "gcp.project_id", "--region", "gcp.region",
             "--database-version", "mysql.version", "--tier", "mysql.tier",
             "--root-password", Str(r.password),
             "--edition", "enterprise", "--availability-type", "zonal",
             "--storage-type", "HDD", "--storage-size", "10",
             "--no-assign-ip", "--network",
             "projects/gcp.project_id/global/networks/default">>
      [] r.pc = "wait_poll" ->
           <<"sql", "instances", "describe", "mysql.instance_name",
             "--project", "gcp.project_id", "--format", "value(state)">>
      [] r.pc = "patch_ip" ->
           <<"sql", "instances", "patch", "mysql.instance_name",
             "--project", "gcp.project_id", "--assign-ip", "--quiet">>
      [] r.pc = "patch_net" ->
           <<"sql", "instances", "patch", "mysql.instance_name",
             "--project", "gcp.project_id",
             "--authorized-networks", "0.0.0.0/0", "--quiet">>
      [] r.pc = "get_ip" ->
           <<"sql", "instances", "describe", "mysql.instance_name",
             "--project", "gcp.project_id",
             "--format", "value(ipAddresses[0].ipAddress)">>

\* run_gcloud (51-52): the command line is printed before the command is run
PrintCmd(r) == [r EXCEPT !.console = @ \cup {<<"[CMD]", "gcloud">> \o GcloudArgs(r)}]

\* run_gcloud (51-53): the command line is printed and the command is run
\* (cmd names it, rc is its result.returncode)
run_gcloud(r, name, check, rc) ==
    [PrintCmd(r) EXCEPT !.events = Append(@, name), !.cmd = name, !.rc = rc]

\* run_gcloud (54): the command failed and the caller checks
CheckFailed(r) == [r EXCEPT !.pc = "gcloud_failed"]

\* run_gcloud (55): the failure is printed
PrintFailed(r) == [r EXCEPT !.console = @ \cup {<<"[ERROR]", "Command failed">>}]

\* run_gcloud (55-56): the failure is printed and raised
run_gcloud_raise(p) ==
    /\ prov[p].pc = "gcloud_failed"
    /\ prov' = [prov EXCEPT ![p] = ProvRaise(PrintFailed(@), RuntimeError)]
    /\ UNCHANGED <<config, bqVars, pwVars, mutVars, pwFile, instance, mysql, now>>

\* load_config (26-31) called from main (292)
prov_load_config(p) ==
    /\ prov[p].pc = "load_config"
    /\ prov' = [prov EXCEPT ![p] =
                  IF config.present THEN [@ EXCEPT !.pc = "credentials"]
                  ELSE ProvRaise(@, FileNotFoundError)]
    /\ UNCHANGED <<config, bqVars, pwVars, mutVars, pwFile, instance, mysql, now>>

\* main (294-301): whether the service account file exists decides only what
\* GOOGLE_APPLICATION_CREDENTIALS is for the gcloud calls that follow, whose
\* outcomes are free here
prov_credentials(p) ==
    /\ prov[p].pc = "credentials"
    /\ prov' = [prov EXCEPT ![p] =
                  IF HasKeys({"gcp.service_account_path"})
                  THEN [@ EXCEPT !.pc = "set_project"]
                  ELSE ProvRaise(@, KeyError)]
    /\ UNCHANGED <<config, bqVars, pwVars, mutVars, pwFile, instance, mysql, now>>

\* main (303-305): gcloud config set project
prov_set_project(p) ==
    /\ prov[p].pc = "set_project"
    /\ \E rc \in {0, 1} :
         LET r == run_gcloud(prov[p], "config_set_project", TRUE, rc)
         IN prov' = [prov EXCEPT ![p] =
                       IF ~HasKeys({"gcp.project_id"}) THEN ProvRaise(@, KeyError)
                       ELSE IF GcloudFailed(TRUE, rc) THEN CheckFailed(r)
                       ELSE [r EXCEPT !.pc = "generate"]]
    /\ UNCHANGED <<config, bqVars, pwVars, mutVars, pwFile, instance, mysql, now>>

\* main (308): the password is generated
Generated(r, rnd) == [r EXCEPT !.password = generate_password(DefaultLength, rnd)]

\* main (307-309)
prov_generate(p) ==
    /\ prov[p].pc = "generate"
    /\ \E rnd \in ProvDraws :
         prov' = [prov EXCEPT ![p] =
                    [Generated(@, rnd)
                       EXCEPT !.pc = "open_file",
                              !.console = @ \cup {<<"[INFO]",
                                  "Generated root password (saved to mysql.password)">>}]]
    /\ UNCHANGED <<config, bqVars, pwVars, mutVars, pwFile, instance, mysql, now>>

\* main (313): open(password_file, "w") empties an existing file and keeps its
\* mode, or creates the file with the mode the process's umask leaves
prov_open_file(p) ==
    /\ prov[p].pc = "open_file"
    /\ \E created_mode \in {"0644", "0600"} :
         pwFile' = [exists |-> TRUE, content |-> <<>>,
                    mode |-> IF pwFile.exists THEN pwFile.mode ELSE created_mode]
    /\ prov' = [prov EXCEPT ![p] = [@ EXCEPT !.pc = "write_file",
                                             !.events = Append(@, "file_open")]]
    /\ UNCHANGED <<config, bqVars, pwVars, mutVars, instance, mysql, now>>

\* main (313-314): f.write(password) and the close that ends the `with`
prov_write_file(p) ==
    /\ prov[p].pc = "write_file"
    /\ pwFile' = [pwFile EXCEPT !.exists = TRUE, !.content = prov[p].password]
    /\ prov' = [prov EXCEPT ![p] = [@ EXCEPT !.pc = "chmod",
                                             !.events = Append(@, "file_write")]]
    /\ UNCHANGED <<config, bqVars, pwVars, mutVars, instance, mysql, now>>

\* main (315): os.chmod(password_file, 0o600)
prov_chmod(p) ==
    /\ prov[p].pc = "chmod"
    /\ pwFile' = [pwFile EXCEPT !.mode = "0600"]
    /\ prov' = [prov EXCEPT ![p] = [@ EXCEPT !.pc = "chmod_print",
                                             !.events = Append(@, "file_chmod")]]
    /\ UNCHANGED <<config, bqVars, pwVars, mutVars, instance, mysql, now>>

\* main (316)
prov_chmod_print(p) ==
    /\ prov[p].pc = "chmod_print"
    /\ prov' = [prov EXCEPT ![p] =
                  [@ EXCEPT !.pc = "instance_keys",
                            !.console = @ \cup {<<"[INFO]", "Password saved to",
                                                  "mysql.password">>}]]
    /\ UNCHANGED <<config, bqVars, pwVars, mutVars, pwFile, instance, mysql, now>>

\* create_mysql_instance (103-117)
prov_instance_keys(p) ==
    /\ prov[p].pc = "instance_keys"
    /\ prov' = [prov EXCEPT ![p] =
                  IF HasKeys({"gcp.project_id", "gcp.region", "mysql.instance_name",
                              "mysql.tier", "mysql.version"})
                  THEN [@ EXCEPT !.pc = "probe"]
                  ELSE ProvRaise(@, KeyError)]
    /\ UNCHANGED <<config, bqVars, pwVars, mutVars, pwFile, instance, mysql, now>>

\* check_instance_exists (67): `return result.returncode == 0`
ExistsAlways(rc) == TRUE

Exists(rc) == rc = 0

\* check_instance_exists (60-66): the describe of the probe; `probed` is whether
\* the instance was there when the describe ran, which fails without it and may
\* fail with it
check_instance_exists(p) ==
    /\ prov[p].pc = "probe"
    /\ \E fault \in BOOLEAN :
         LET rc == IF instance.exists /\ ~fault THEN 0 ELSE 1
             r == [run_gcloud(prov[p], "describe_name", FALSE, rc)
                   EXCEPT !.probed = IF instance.exists THEN "present" ELSE "absent"]
         IN prov' = [prov EXCEPT ![p] =
                       IF GcloudFailed(FALSE, rc) THEN CheckFailed(r)
                       ELSE [r EXCEPT !.pc = "probe_return"]]
    /\ UNCHANGED <<config, bqVars, pwVars, mutVars, pwFile, instance, mysql, now>>

\* check_instance_exists (67) and the branch of create_mysql_instance (120);
\* `exists` is what the function returns
check_instance_exists_return(p) ==
    /\ prov[p].pc = "probe_return"
    /\ prov' = [prov EXCEPT ![p] =
                  IF Exists(@.rc)
                  THEN [@ EXCEPT !.pc = "set_password", !.exists = "True"]
                  ELSE [@ EXCEPT !.pc = "create", !.exists = "False"]]
    /\ UNCHANGED <<config, bqVars, pwVars, mutVars, pwFile, instance, mysql, now>>

\* create_mysql_instance (121-130): gcloud sql users set-password
prov_set_password(p) ==
    /\ prov[p].pc = "set_password"
    /\ \E fault \in BOOLEAN :
         LET rc == IF instance.exists /\ ~fault THEN 0 ELSE 1
             r == run_gcloud(prov[p], "set_password", TRUE, rc)
         IN /\ prov' = [prov EXCEPT ![p] =
                          IF GcloudFailed(TRUE, rc) THEN CheckFailed(r)
                          ELSE [r EXCEPT !.pc = "patch_ip"]]
            /\ instance' = IF rc = 0
                           THEN [instance EXCEPT !.rootPw = prov[p].password]
                           ELSE instance
    /\ UNCHANGED <<config, bqVars, pwVars, mutVars, pwFile, mysql, now>>

\* create_mysql_instance (132-150): gcloud sql instances create, then the
\* first readiness wait
prov_create(p) ==
    /\ prov[p].pc = "create"
    /\ \E fault \in BOOLEAN :
         LET rc == IF ~instance.exists /\ ~fault THEN 0 ELSE 1
             r == run_gcloud(prov[p], "create", TRUE, rc)
         IN /\ prov' = [prov EXCEPT ![p] =
                          IF GcloudFailed(TRUE, rc) THEN CheckFailed(r)
                          ELSE [r EXCEPT !.pc = "wait_check", !.site = 1,
                                         !.waited = 0, !.observed = ""]]
            /\ instance' = IF rc = 0
                           THEN [exists |-> TRUE, rootPw |-> prov[p].password,
                                 assignIp |-> FALSE, authNets |-> {}]
                           ELSE instance
            /\ mysql' = IF rc = 0 THEN FreshMysql ELSE mysql
    /\ UNCHANGED <<config, bqVars, pwVars, mutVars, pwFile, now>>

\* wait_for_instance_ready (74): the budget test of the loop
WithinBudgetAlways(waited, budget) == TRUE

WithinBudget(waited, budget) == waited < budget

\* wait_for_instance_ready (82)
IsReadyAnyState(state) == state # ""

IsReady(state) == state = "RUNNABLE"

\* where wait_for_instance_ready returns to: (150) -> (152), (174) -> (176)
AfterWaitSkipsIp(site) == IF site = 1 THEN "patch_ip" ELSE "seed_keys"

AfterWait(site) == IF site = 1 THEN "patch_ip" ELSE "get_ip"

\* wait_for_instance_ready (74, 86): the loop test; the timeout when it fails
wait_check(p) ==
    /\ prov[p].pc = "wait_check"
    /\ prov' = [prov EXCEPT ![p] =
                  IF WithinBudget(@.waited, max_wait) THEN [@ EXCEPT !.pc = "wait_poll"]
                  ELSE ProvRaise(@, TimeoutError)]
    /\ UNCHANGED <<config, bqVars, pwVars, mutVars, pwFile, instance, mysql, now>>

\* wait_for_instance_ready (75-84): one poll, which takes `secs` seconds; the
\* elapsed time is the function's own and is dropped when it returns
wait_poll(p) ==
    /\ prov[p].pc = "wait_poll"
    /\ \E res \in PollResults, secs \in 0..MaxCallSecs :
         LET r == run_gcloud(prov[p], "describe_state", FALSE, res.rc)
             q == [r EXCEPT !.events = prov[p].events, !.waited = @ + secs,
                            !.observed = res.stdout]
         IN prov' = [prov EXCEPT ![p] =
                       IF GcloudFailed(FALSE, res.rc) THEN CheckFailed(q)
                       ELSE IF IsReady(res.stdout)
                       THEN [q EXCEPT !.pc = AfterWait(q.site), !.waited = 0,
                                      !.events = Append(@, "ready")]
                       ELSE [q EXCEPT !.pc = "wait_sleep"]]
    /\ UNCHANGED <<config, bqVars, pwVars, mutVars, pwFile, instance, mysql, now>>

\* wait_for_instance_ready (85)
wait_sleep(p) ==
    /\ prov[p].pc = "wait_sleep"
    /\ prov' = [prov EXCEPT ![p] = [@ EXCEPT !.pc = "wait_check",
                                             !.waited = @ + poll_delay]]
    /\ UNCHANGED <<config, bqVars, pwVars, mutVars, pwFile, instance, mysql, now>>

\* create_mysql_instance (155-161): gcloud sql instances patch --assign-ip
prov_patch_ip(p) ==
    /\ prov[p].pc = "patch_ip"
    /\ \E fault \in BOOLEAN :
         LET rc == IF instance.exists /\ ~fault THEN 0 ELSE 1
             r == run_gcloud(prov[p], "patch_assign_ip", TRUE, rc)
         IN /\ prov' = [prov EXCEPT ![p] =
                          IF GcloudFailed(TRUE, rc) THEN CheckFailed(r)
                          ELSE [r EXCEPT !.pc = "patch_sleep"]]
            /\ instance' = IF rc = 0 THEN [instance EXCEPT !.assignIp = TRUE]
                           ELSE instance
    /\ UNCHANGED <<config, bqVars, pwVars, mutVars, pwFile, mysql, now>>

\* create_mysql_instance (163): time.sleep(5) between the two patches
prov_patch_sleep(p) ==
    /\ prov[p].pc = "patch_sleep"
    /\ prov' = [prov EXCEPT ![p] = [@ EXCEPT !.pc = "patch_net",
                                             !.events = Append(@, "sleep5")]]
    /\ UNCHANGED <<config, bqVars, pwVars, mutVars, pwFile, instance, mysql, now>>

\* create_mysql_instance (165-174): gcloud sql instances patch
\* --authorized-networks 0.0.0.0/0, then the second readiness wait
prov_patch_net(p) ==
    /\ prov[p].pc = "patch_net"
    /\ \E fault \in BOOLEAN :
         LET rc == IF instance.exists /\ ~fault THEN 0 ELSE 1
             r == run_gcloud(prov[p], "patch_authorized_networks", TRUE, rc)
         IN /\ prov' = [prov EXCEPT ![p] =
                          IF GcloudFailed(TRUE, rc) THEN CheckFailed(r)
                          ELSE [r EXCEPT !.pc = "wait_check", !.site = 2,
                                         !.waited = 0, !.observed = ""]]
            /\ instance' = IF rc = 0
                           THEN [instance EXCEPT !.authNets = {"0.0.0.0/0"}]
                           ELSE instance
    /\ UNCHANGED <<config, bqVars, pwVars, mutVars, pwFile, mysql, now>>

\* get_instance_ip (89-98) called from create_mysql_instance (176)
get_instance_ip(p) ==
    /\ prov[p].pc = "get_ip"
    /\ \E fault \in BOOLEAN :
         LET rc == IF instance.exists /\ ~fault THEN 0 ELSE 1
             r == run_gcloud(prov[p], "describe_ip", TRUE, rc)
         IN prov' = [prov EXCEPT ![p] =
                       IF GcloudFailed(TRUE, rc) THEN CheckFailed(r)
                       ELSE [r EXCEPT !.pc = "seed_keys",
                                      !.host = IF rc = 0 THEN InstanceIp ELSE ""]]
    /\ UNCHANGED <<config, bqVars, pwVars, mutVars, pwFile, instance, mysql, now>>

\* main (322-327) evaluates config["mysql"]["root_user"] for the call, then
\* create_database_and_table (181-190) reads db_name and table_name
prov_seed_keys(p) ==
    /\ prov[p].pc = "seed_keys"
    /\ prov' = [prov EXCEPT ![p] =
                  IF HasKeys({"mysql.root_user", "mysql.db_name", "mysql.table_name"})
                  THEN [@ EXCEPT !.pc = "connect", !.attempt = 0]
                  ELSE ProvRaise(@, KeyError)]
    /\ UNCHANGED <<config, bqVars, pwVars, mutVars, pwFile, instance, mysql, now>>

\* whether the server lets `password` in from `host`
Accepts(host, password) ==
    /\ instance.exists
    /\ host # "" /\ host = InstanceIp
    /\ "0.0.0.0/0" \in instance.authNets
    /\ password = instance.rootPw

\* create_database_and_table (209): another attempt follows a failed one
ShouldRetryAlways(attempt, retries) == attempt < retries

ShouldRetry(attempt, retries) == attempt < retries - 1

\* create_database_and_table (199): mysql.connector.connect was called
Connected(r) == [r EXCEPT !.connects = @ + 1]

\* create_database_and_table (197-213): one pass of the connection loop
seed_connect(p) ==
    /\ prov[p].pc = "connect"
    /\ \E up \in BOOLEAN :
         LET r == Connected(prov[p])
         IN prov' = [prov EXCEPT ![p] =
                       IF up /\ Accepts(r.host, r.password)
                       THEN [r EXCEPT !.pc = "cursor", !.conn = "open",
                                      !.events = Append(@, "connected")]
                       ELSE IF ShouldRetry(r.attempt, max_retries)
                       THEN [r EXCEPT !.pc = "retry_sleep"]
                       ELSE ProvRaise(r, InterfaceError)]
    /\ UNCHANGED <<config, bqVars, pwVars, mutVars, pwFile, instance, mysql, now>>

\* create_database_and_table (210-211) and the next value of the loop variable;
\* a loop that ran out without a connection leaves `connection` unbound (215)
seed_retry_sleep(p) ==
    /\ prov[p].pc = "retry_sleep"
    /\ prov' = [prov EXCEPT ![p] =
                  IF @.attempt + 1 < max_retries
                  THEN [@ EXCEPT !.pc = "connect", !.slept = @ + retry_delay,
                                 !.attempt = @ + 1]
                  ELSE ProvRaise([@ EXCEPT !.slept = @ + retry_delay],
                                 Exc("UnboundLocalError", <<"connection">>))]
    /\ UNCHANGED <<config, bqVars, pwVars, mutVars, pwFile, instance, mysql, now>>

\* create_database_and_table (215): the connection loop is left, and its
\* counters are not used again
LoopLeft(r) == [r EXCEPT !.attempt = 0, !.connects = 0, !.slept = 0]

\* create_database_and_table (215): connection.cursor() returned
CursorTaken(r) == [r EXCEPT !.cursor = "open"]

\* create_database_and_table (215): the cursor is taken before the `try`
seed_cursor(p) ==
    /\ prov[p].pc = "cursor"
    /\ \E fail \in BOOLEAN :
         LET r == LoopLeft(prov[p])
         IN prov' = [prov EXCEPT ![p] =
                       IF fail THEN ProvRaise(r, OperationalError)
                       ELSE [CursorTaken(r) EXCEPT !.pc = "create_database"]]
    /\ UNCHANGED <<config, bqVars, pwVars, mutVars, pwFile, instance, mysql, now>>

\* a statement of the `try` block (217-277) raised: on to the `finally`
SeedFail(r, e) == [r EXCEPT !.pc = "finally", !.pending = e]

\* cursor.execute(stmt) went through: on to the next statement
SeedStep(r, stmt, next) == [r EXCEPT !.pc = next, !.events = Append(@, stmt)]

\* create_database_and_table (220): CREATE DATABASE IF NOT EXISTS
seed_create_database(p) ==
    /\ prov[p].pc = "create_database"
    /\ \E fail \in BOOLEAN :
         /\ prov' = [prov EXCEPT ![p] =
                       IF fail THEN SeedFail(@, OperationalError)
                       ELSE SeedStep(@, "sql_create_database", "use")]
         /\ mysql' = IF fail THEN mysql ELSE [mysql EXCEPT !.db = TRUE]
    /\ UNCHANGED <<config, bqVars, pwVars, mutVars, pwFile, instance, now>>

\* create_database_and_table (221): USE
seed_use(p) ==
    /\ prov[p].pc = "use"
    /\ \E fail \in BOOLEAN :
         prov' = [prov EXCEPT ![p] =
                    IF fail \/ ~mysql.db THEN SeedFail(@, OperationalError)
                    ELSE SeedStep(@, "sql_use", "create_table")]
    /\ UNCHANGED <<config, bqVars, pwVars, mutVars, pwFile, instance, mysql, now>>

\* create_database_and_table (224-234): CREATE TABLE IF NOT EXISTS
seed_create_table(p) ==
    /\ prov[p].pc = "create_table"
    /\ \E fail \in BOOLEAN :
         /\ prov' = [prov EXCEPT ![p] =
                       IF fail THEN SeedFail(@, OperationalError)
                       ELSE SeedStep(@, "sql_create_table", "count")]
         /\ mysql' = IF fail THEN mysql ELSE [mysql EXCEPT !.tbl = TRUE]
    /\ UNCHANGED <<config, bqVars, pwVars, mutVars, pwFile, instance, now>>

\* create_database_and_table (240)
NeedsTruncateOver10(count) == count > 10

NeedsTruncate(count) == count > 0

\* create_database_and_table (237-240): SELECT COUNT(*), which sees the
\* committed rows and the connection's own
seed_count(p) ==
    /\ prov[p].pc = "count"
    /\ \E fail \in BOOLEAN :
         LET n == Cardinality(mysql.rows \cup prov[p].txn)
         IN prov' = [prov EXCEPT ![p] =
                       IF fail \/ ~mysql.tbl THEN SeedFail(@, OperationalError)
                       ELSE [SeedStep(@, "sql_count",
                                      IF NeedsTruncate(n) THEN "truncate" ELSE "insert")
                               EXCEPT !.i = FirstId]]
    /\ UNCHANGED <<config, bqVars, pwVars, mutVars, pwFile, instance, mysql, now>>

\* create_database_and_table (241-242): TRUNCATE TABLE commits by itself
seed_truncate(p) ==
    /\ prov[p].pc = "truncate"
    /\ \E fail \in BOOLEAN :
         /\ prov' = [prov EXCEPT ![p] =
                       IF fail THEN SeedFail(@, OperationalError)
                       ELSE [SeedStep(@, "sql_truncate", "insert") EXCEPT !.txn = {}]]
         /\ mysql' = IF fail THEN mysql ELSE [mysql EXCEPT !.rows = {}]
    /\ UNCHANGED <<config, bqVars, pwVars, mutVars, pwFile, instance, now>>

\* create_database_and_table (255-263): one pass of the insert loop; the row
\* stays the connection's own until the commit
seed_insert(p) ==
    /\ prov[p].pc = "insert"
    /\ \E fail \in BOOLEAN, x \in uniform(PriceLow, PriceHigh) :
         LET i == prov[p].i
             row == Item(i, descriptions[i], round2(x), now)
         IN prov' = [prov EXCEPT ![p] =
                       IF fail THEN SeedFail(@, OperationalError)
                       ELSE IF i \in Ids(mysql.rows \cup @.txn)
                       THEN SeedFail(@, IntegrityError)
                       ELSE [SeedStep(@, "sql_insert",
                                      IF i = LastId THEN "commit" ELSE "insert")
                               EXCEPT !.txn = @ \cup {row}, !.i = i + 1]]
    /\ UNCHANGED <<config, bqVars, pwVars, mutVars, pwFile, instance, mysql, now>>

\* create_database_and_table (265-266)
seed_commit(p) ==
    /\ prov[p].pc = "commit"
    /\ \E fail \in BOOLEAN :
         /\ prov' = [prov EXCEPT ![p] =
                       IF fail THEN SeedFail(@, OperationalError)
                       ELSE [SeedStep(@, "commit", "verify") EXCEPT !.txn = {}]]
         /\ mysql' = IF fail THEN mysql
                     ELSE [mysql EXCEPT !.rows = @ \cup prov[p].txn]
    /\ UNCHANGED <<config, bqVars, pwVars, mutVars, pwFile, instance, now>>

\* create_database_and_table (268-277): SELECT * and the printed table
seed_verify(p) ==
    /\ prov[p].pc = "verify"
    /\ \E fail \in BOOLEAN :
         prov' = [prov EXCEPT ![p] =
                    IF fail THEN SeedFail(@, OperationalError)
                    ELSE SeedStep(@, "sql_select", "finally")]
    /\ UNCHANGED <<config, bqVars, pwVars, mutVars, pwFile, instance, mysql, now>>

\* create_database_and_table (280): cursor.close()
CursorClosed(r) == [r EXCEPT !.cursor = "closed"]

\* create_database_and_table (281): connection.close(), with which what was not
\* committed is lost
ConnectionClosed(r) ==
    [r EXCEPT !.conn = "closed", !.txn = {}, !.events = Append(@, "closed")]

\* create_database_and_table (282)
PrintClosed(r) == [r EXCEPT !.console = @ \cup {<<"[INFO]", "MySQL connection closed.">>}]

\* create_database_and_table (279-282): the cursor and the connection are
\* closed, and a pending exception goes on
seed_finally(p) ==
    /\ prov[p].pc = "finally"
    /\ prov' = [prov EXCEPT ![p] =
                  LET r == PrintClosed(ConnectionClosed(CursorClosed(@)))
                  IN IF r.pending = NoExc THEN [r EXCEPT !.pc = "summary"]
                     ELSE ProvRaise(r, r.pending)]
    /\ UNCHANGED <<config, bqVars, pwVars, mutVars, pwFile, instance, mysql, now>>

\* the statements of the `try` block of create_database_and_table (217-277)
TryPcs == {"create_database", "use", "create_table", "count", "truncate",
           "insert", "commit", "verify"}

\* main (329-338): the lines that close a run
SummaryLines(r) ==
    << <<"Instance:", "mysql.instance_name">>,
       <<"Host:", r.host>>,
       <<"User:", "root">>,
       <<"Password:", "(saved in mysql.password)">> >>

\* main (329-338): the first n closing lines are printed
Summarised(r, n) == [r EXCEPT !.console = @ \cup {SummaryLines(r)[k] : k \in 1..n}]

\* how far the step at `r` may have got when a signal arrives in it: the
\* effects on the process's own state that are done statement by statement.
\*   - Where run_gcloud is being called, the command line has been printed
\*     (52) or not yet, and the command has not been run (53).
\*   - After a failed checked command (54), the failure has been printed (55)
\*     or not yet.
\*   - In main (308-309), the password has been generated or not yet.
\*   - In the connection loop (197-213), connect() has been called and the
\*     server has refused, so that the `except` clause (207-213) runs, or not yet.
\*   - At (215), connection.cursor() has returned and the `try` (217) is not
\*     entered, or not yet.
\*   - Inside the `finally` of the seeding (279-282), cursor.close() (280),
\*     connection.close() (281) and the print (282) are done in this order.
\*   - In the closing lines of main (329-338), any number of them is printed.
Partial(r) ==
    {r} \cup
    CASE r.pc \in GcloudPcs ->
           IF r.pc = "set_project" => HasKeys({"gcp.project_id"})
           THEN {PrintCmd(r)} ELSE {}
      [] r.pc = "gcloud_failed" -> {PrintFailed(r)}
      [] r.pc = "generate" -> {Generated(r, rnd) : rnd \in ProvDraws}
      [] r.pc = "connect" -> {Connected(r)}
      [] r.pc = "cursor" -> {CursorTaken(LoopLeft(r))}
      [] r.pc = "finally" ->
           {CursorClosed(r), ConnectionClosed(CursorClosed(r)),
            PrintClosed(ConnectionClosed(CursorClosed(r)))}
      [] r.pc = "summary" -> {Summarised(r, n) : n \in 1..Len(SummaryLines(r))}
      [] OTHER -> {}

\* how a KeyboardInterrupt leaves a run that is at `r`. No `except` of the
\* program catches it (they name MySQLError), so it reaches __main__ (344-346)
\* unless a `finally` is on its way.
\*   - Inside the `try` block of the seeding (217-277) the `finally` runs
\*     first. A run that has sent the SELECT of the verification (269) and
\*     raised nothing may still be inside the block, fetching and printing the
\*     rows (270-277).
\*   - Inside the `finally` (279-282) the rest of it is skipped.
\*   - While an `except` clause of __main__ runs (344-349), nothing catches
\*     it: the handler's line is printed or not yet, and the process ends with
\*     the status of a SIGINT.
Interrupted(r) ==
    IF r.pc = "except"
    THEN {[q EXCEPT !.pc = "exit", !.exit = SigintStatus, !.err = KeyboardInterrupt] :
            q \in {r, [r EXCEPT !.console = @ \cup {HandlerLine(r.err)}]}}
    ELSE {IF q.pc \in TryPcs THEN SeedFail(q, KeyboardInterrupt)
          ELSE ProvRaise(q, KeyboardInterrupt) : q \in Partial(r)}
         \cup (IF r.pc = "finally" /\ r.pending = NoExc
               THEN {SeedFail(r, KeyboardInterrupt)} ELSE {})

\* SIGINT delivered to the process while main or a handler of __main__ runs:
\* the KeyboardInterrupt is raised at the statement being run
prov_interrupt(p) ==
    /\ prov[p].pc \notin {"off", "exit"}
    /\ \E r \in Interrupted(prov[p]) : prov' = [prov EXCEPT ![p] = r]
    /\ UNCHANGED <<config, bqVars, pwVars, mutVars, pwFile, instance, mysql, now>>

\* main (329-338), which returns to __main__ (343)
prov_summary(p) ==
    /\ prov[p].pc = "summary"
    /\ prov' = [prov EXCEPT ![p] =
                  [Summarised(@, Len(SummaryLines(@))) EXCEPT !.pc = "exit", !.exit = 0]]
    /\ UNCHANGED <<config, bqVars, pwVars, mutVars, pwFile, instance, mysql, now>>

\* __main__ (344-349): the handler prints what reached the top level and the
\* process exits with status 1
prov_except(p) ==
    /\ prov[p].pc = "except"
    /\ prov' = [prov EXCEPT ![p] =
                  [@ EXCEPT !.pc = "exit", !.exit = 1,
                            !.console = @ \cup {HandlerLine(prov[p].err)}]]
    /\ UNCHANGED <<config, bqVars, pwVars, mutVars, pwFile, instance, mysql, now>>

provision(p) ==
    \/ prov_load_config(p)
    \/ prov_credentials(p)
    \/ prov_set_project(p)
    \/ prov_generate(p)
    \/ prov_open_file(p)
    \/ prov_write_file(p)
    \/ prov_chmod(p)
    \/ prov_chmod_print(p)
    \/ prov_instance_keys(p)
    \/ check_instance_exists(p)
    \/ check_instance_exists_return(p)
    \/ prov_set_password(p)
    \/ prov_create(p)
    \/ wait_check(p)
    \/ wait_poll(p)
    \/ wait_sleep(p)
    \/ prov_patch_ip(p)
    \/ prov_patch_sleep(p)
    \/ prov_patch_net(p)
    \/ get_instance_ip(p)
    \/ prov_seed_keys(p)
    \/ seed_connect(p)
    \/ seed_retry_sleep(p)
    \/ seed_cursor(p)
    \/ seed_create_database(p)
    \/ seed_use(p)
    \/ seed_create_table(p)
    \/ seed_count(p)
    \/ seed_truncate(p)
    \/ seed_insert(p)
    \/ seed_commit(p)
    \/ seed_verify(p)
    \/ seed_finally(p)
    \/ prov_summary(p)
    \/ run_gcloud_raise(p)
    \/ prov_except(p)
    \/ prov_interrupt(p)

----------------------------------------------------------------------------
(* mysql/update_mysql.py: the mutation driver *)

\* the most iterations of the mutation loop that are followed
MaxIterations == 2

\* the whole seconds the server's clock gains during time.sleep(wait_time),
\* wait_time = random.uniform(1.0, 3.0) (178-179): the middle of the range
SleepSecs == {2}

\* A character of a text is a string: a character of ASCII is the string of
\* that one character, any other character is named by its code point, "U+"
\* and four hexadecimal digits ("U+00E9", "U+2003"), and a text is the
\* sequence of its characters.
\* The characters str.strip() removes (update_mysql.py 51) are those for
\* which str.isspace() holds: tab, line feed, vertical tab, form feed,
\* carriage return, the separators U+001C to U+001F and space in ASCII, and
\* beyond it next line, no-break space, ogham space mark, en quad to hair
\* space, line separator, paragraph separator, narrow no-break space,
\* medium mathematical space and ideographic space
Whitespace == {" ", "\t", "\n", "\r", "\f", "", "", "", "", "",
               "U+0085", "U+00A0", "U+1680", "U+2000", "U+2001", "U+2002",
               "U+2003", "U+2004", "U+2005", "U+2006", "U+2007", "U+2008",
               "U+2009", "U+200A", "U+2028", "U+2029", "U+202F", "U+205F",
               "U+3000"}

\* str.strip(): leading and trailing whitespace removed
RECURSIVE LStrip(_)
LStrip(s) == IF s # <<>> /\ Head(s) \in Whitespace THEN LStrip(Tail(s)) ELSE s

RECURSIVE RStrip(_)
RStrip(s) ==
    IF s # <<>> /\ s[Len(s)] \in Whitespace THEN RStrip(SubSeq(s, 1, Len(s) - 1))
    ELSE s

Strip(s) == RStrip(LStrip(s))

NoResult == [found |-> FALSE, price |-> 0, description |-> ""]

MutInitProc ==
    [pc |-> "install", handlers |-> FALSE, host |-> "", password |-> <<>>,
     conn |-> "none", cursor |-> "none", update_count |-> 0, iterations |-> 0,
     record_id |-> 0, result |-> NoResult, ret |-> "none",
     events |-> <<>>, total |-> -1, exit |-> -1, pending |-> NoExc, err |-> NoExc]

MutOff == [MutInitProc EXCEPT !.pc = "off"]

\* __main__ (192-197): an exception that reaches the top level is printed and
\* the process exits with status 1
MutRaise(r, e) == [r EXCEPT !.pc = "exit", !.exit = 1, !.err = e]

\* main (107-109)
mut_install_handlers ==
    /\ mut.pc = "install"
    /\ mut' = [mut EXCEPT !.pc = "load_config", !.handlers = TRUE]
    /\ UNCHANGED <<config, bqVars, pwVars, provVars, running>>

\* signal_handler (27-31), run when SIGINT or SIGTERM is delivered to the
\* process after the handlers are installed
signal_handler_default ==
    /\ mut.handlers /\ mut.pc # "exit"
    /\ running
    /\ running' = FALSE
    /\ mut' = MutRaise(mut, Exc("KeyboardInterrupt", <<>>))
    /\ UNCHANGED <<config, bqVars, pwVars, provVars>>

signal_handler ==
    /\ mut.handlers /\ mut.pc # "exit"
    /\ running
    /\ running' = FALSE
    /\ UNCHANGED <<config, bqVars, pwVars, provVars, mut>>

\* load_config (34-39) called from main (118)
mut_load_config ==
    /\ mut.pc = "load_config"
    /\ mut' = IF config.present THEN [mut EXCEPT !.pc = "credentials"]
              ELSE MutRaise(mut, FileNotFoundError)
    /\ UNCHANGED <<config, bqVars, pwVars, provVars, running>>

\* main (120-123)
mut_credentials ==
    /\ mut.pc = "credentials"
    /\ mut' = IF HasKeys({"gcp.service_account_path"})
              THEN [mut EXCEPT !.pc = "get_ip"]
              ELSE MutRaise(mut, KeyError)
    /\ UNCHANGED <<config, bqVars, pwVars, provVars, running>>

\* get_instance_ip (63)
IpLookupError == Exc("RuntimeError", <<"Failed to get instance IP">>)

\* main (125-128) and get_instance_ip (54-66)
mut_get_instance_ip ==
    /\ mut.pc = "get_ip"
    /\ \E fault \in BOOLEAN :
         LET rc == IF instance.exists /\ ~fault THEN 0 ELSE 1
             r == [mut EXCEPT !.events = Append(@, "describe_ip")]
         IN mut' = IF ~HasKeys({"gcp.project_id", "mysql.instance_name"})
                   THEN MutRaise(mut, KeyError)
                   ELSE IF rc # 0 THEN MutRaise(r, IpLookupError)
                   ELSE [r EXCEPT !.pc = "load_password", !.host = InstanceIp]
    /\ UNCHANGED <<config, bqVars, pwVars, provVars, running>>

\* load_password (46-49): the error raised for a missing password file
PasswordFileNotFound ==
    Exc("FileNotFoundError",
        <<"Password file not found", "Please run 'make init_mysql' first.">>)

\* load_password (45): `if not password_file.exists()`
IsAbsent(file) == ~file.exists

\* load_password (42-51) called from main (131)
load_password ==
    /\ mut.pc = "load_password"
    /\ mut' = IF IsAbsent(pwFile) THEN MutRaise(mut, PasswordFileNotFound)
              ELSE [mut EXCEPT !.pc = "table_keys", !.password = Strip(pwFile.content),
                               !.events = Append(@, "file_read")]
    /\ UNCHANGED <<config, bqVars, pwVars, provVars, running>>

\* main (133-141)
mut_table_keys ==
    /\ mut.pc = "table_keys"
    /\ mut' = IF HasKeys({"mysql.db_name", "mysql.table_name"})
              THEN [mut EXCEPT !.pc = "connect"]
              ELSE MutRaise(mut, KeyError)
    /\ UNCHANGED <<config, bqVars, pwVars, provVars, running>>

\* main (143-151): the connection, to the database db_name, autocommit on
mut_connect ==
    /\ mut.pc = "connect"
    /\ \E up \in BOOLEAN :
         LET r == [mut EXCEPT !.events = Append(@, "connect")]
         IN mut' = IF ~HasKeys({"mysql.root_user"}) THEN MutRaise(mut, KeyError)
                   ELSE IF up /\ Accepts(mut.host, mut.password) /\ mysql.db
                   THEN [r EXCEPT !.pc = "cursor", !.conn = "open"]
                   ELSE MutRaise(r, InterfaceError)
    /\ UNCHANGED <<config, bqVars, pwVars, provVars, running>>

\* main (152-159)
mut_cursor ==
    /\ mut.pc = "cursor"
    /\ \E fail \in BOOLEAN :
         mut' = IF fail THEN MutRaise(mut, OperationalError)
                ELSE [mut EXCEPT !.pc = "loop", !.cursor = "open", !.update_count = 0]
    /\ UNCHANGED <<config, bqVars, pwVars, provVars, running>>

\* main (162): `while running`
LoopGoesOnAlways(flag) == TRUE

LoopGoesOn(flag) == flag

\* main (162): the loop test
mut_loop ==
    /\ mut.pc = "loop"
    /\ LoopGoesOn(running) => mut.iterations < MaxIterations
    /\ mut' = IF LoopGoesOn(running)
              THEN [mut EXCEPT !.pc = "select", !.iterations = @ + 1,
                               !.record_id = 0, !.result = NoResult, !.ret = "none"]
              ELSE [mut EXCEPT !.pc = "finally"]
    /\ UNCHANGED <<config, bqVars, pwVars, provVars, running>>

\* a statement of the loop raised a MySQLError: main (181-182), then (183)
MutFailRetries(r, e) == [r EXCEPT !.pc = "loop", !.pending = e]

MutFail(r, e) == [r EXCEPT !.pc = "finally", !.pending = e]

\* the row of the committed table with this id, as the SELECT of (75) gives it
Select(rows, id) ==
    IF id \in Ids(rows)
    THEN LET row == CHOOSE r \in rows : r.id = id
         IN [found |-> TRUE, price |-> row.price, description |-> row.description]
    ELSE NoResult

\* update_random_record (77): `if not result`
IsMissingNever(result) == FALSE

IsMissing(result) == ~result.found

\* update_random_record (72-82): the id is drawn and its row is read
update_select ==
    /\ mut.pc = "select"
    /\ \E id \in FirstId..LastId, fail \in BOOLEAN :
         LET res == Select(mysql.rows, id)
             r == [mut EXCEPT !.record_id = id, !.result = res,
                              !.events = Append(@, "sql_select")]
         IN mut' = IF fail \/ ~mysql.tbl THEN MutFail(r, OperationalError)
                   ELSE IF IsMissing(res) THEN [r EXCEPT !.pc = "sleep", !.ret = "None"]
                   ELSE [r EXCEPT !.pc = "update"]
    /\ UNCHANGED <<config, bqVars, pwVars, provVars, running>>

\* the UPDATE of (88-92) on the rows
UpdateAllRows(rows, id, price, t) ==
    {[r EXCEPT !.price = price, !.updated_at = t] : r \in rows}

Update(rows, id, price, t) ==
    {IF r.id = id THEN [r EXCEPT !.price = price, !.updated_at = t] ELSE r : r \in rows}

\* update_random_record (84-100) and main (166-175): the new price is drawn,
\* the row is updated and committed at once, and the update is counted
update_execute ==
    /\ mut.pc = "update"
    /\ \E x \in uniform(PriceLow, PriceHigh), fail \in BOOLEAN :
         LET r == [mut EXCEPT !.events = Append(@, "sql_update")]
         IN /\ mut' = IF fail \/ ~mysql.tbl THEN MutFail(r, OperationalError)
                      ELSE [r EXCEPT !.pc = "sleep", !.ret = "dict",
                                     !.update_count = @ + 1]
            /\ mysql' = IF fail \/ ~mysql.tbl THEN mysql
                        ELSE [mysql EXCEPT
                                !.rows = Update(@, mut.record_id, round2(x), now)]
    /\ UNCHANGED <<config, bqVars, pwVars, prov, pwFile, instance, now, running>>

\* main (177-179): the sleep, during which the server's clock goes on
mut_sleep ==
    /\ mut.pc = "sleep"
    /\ \E secs \in SleepSecs : now' = now + secs
    /\ mut' = [mut EXCEPT !.pc = "loop"]
    /\ UNCHANGED <<config, bqVars, pwVars, prov, pwFile, instance, mysql, running>>

\* main (181-189): a MySQLError of the loop is printed and dropped, the cursor
\* and the connection are closed, the count is printed, and main returns
mut_finally ==
    /\ mut.pc = "finally"
    /\ mut' = LET r == [mut EXCEPT !.cursor = "closed", !.conn = "closed",
                                   !.total = mut.update_count,
                                   !.events = Append(@, "closed")]
              IN IF r.pending = NoExc \/ IsMySQLError(r.pending)
                 THEN [r EXCEPT !.pc = "exit", !.exit = 0]
                 ELSE MutRaise(r, r.pending)
    /\ UNCHANGED <<config, bqVars, pwVars, provVars, running>>

mutate ==
    \/ mut_install_handlers
    \/ signal_handler
    \/ mut_load_config
    \/ mut_credentials
    \/ mut_get_instance_ip
    \/ load_password
    \/ mut_table_keys
    \/ mut_connect
    \/ mut_cursor
    \/ mut_loop
    \/ update_select
    \/ update_execute
    \/ mut_sleep
    \/ mut_finally

----------------------------------------------------------------------------
(* Specifications *)

\* the part of the state each program leaves alone when it is not run
BqIdle ==
    /\ bq = [b \in BqProcs |-> [BqInitProc EXCEPT !.pc = "off"]]
    /\ bqDataset = NoDataset
    /\ bqTable = NoTable
    /\ bqCreated = [dataset |-> 0, table |-> 0]

PwIdle ==
    /\ pwIn = [raw |-> <<>>, upper |-> "A", lower |-> "a", digit |-> "0", symbol |-> "!"]
    /\ pwOut = <<>>

MutIdle ==
    /\ mut = MutOff
    /\ running = TRUE

ProvIdle ==
    /\ prov = [p \in ProvProcs |-> ProvOff]
    /\ pwFile = NoFile
    /\ instance = NoInstance
    /\ mysql = FreshMysql
    /\ now = 0

\* two runs of the warehouse initializer, in any interleaving
InitBq ==
    /\ config \in ConfigsOf(BqKeys)
    /\ bq = [b \in BqProcs |-> BqInitProc]
    /\ bqDataset = NoDataset
    /\ bqTable = NoTable
    /\ bqCreated = [dataset |-> 0, table |-> 0]
    /\ PwIdle
    /\ ProvIdle
    /\ MutIdle

NextBq ==
    \E b \in BqProcs :
        \/ bq_load_config(b)
        \/ bq_credentials(b)
        \/ bq_read_keys(b)
        \/ bq_client(b)
        \/ create_dataset_get(b)
        \/ create_dataset_get_return(b)
        \/ create_dataset_create(b)
        \/ create_dataset_create_return(b)
        \/ create_table_get(b)
        \/ create_table_get_return(b)
        \/ create_table_query(b)
        \/ create_table_query_return(b)
        \/ create_table_result(b)
        \/ create_table_result_return(b)
        \/ verify_table_get(b)
        \/ verify_table(b)
        \/ bq_complete(b)
        \/ bq_except(b)
        \/ bq_interrupt(b)

SpecBq == InitBq /\ [][NextBq]_vars

\* generate_password on its own
InitPw ==
    /\ config = [present |-> TRUE, keys |-> AllKeys]
    /\ BqIdle
    /\ pwIn \in PwDraws
    /\ pwOut = <<>>
    /\ ProvIdle
    /\ MutIdle

NextPw == pw_generate

SpecPw == InitPw /\ [][NextPw]_vars

\* what one run of the provisioner may find: no password file or an earlier
\* run's, no instance or an earlier run's, and on that one no table, the
\* seeded table, or a table with other rows
OldFile == [exists |-> TRUE, content |-> OldPassword, mode |-> "0600"]

OtherRows == {Item(42, "Other", 999, 0)}

Init ==
    /\ config \in ConfigsOf(ProvKeys)
    /\ BqIdle
    /\ PwIdle
    /\ MutIdle
    /\ prov = [p \in ProvProcs |-> IF p = 1 THEN ProvInitProc ELSE ProvOff]
    /\ pwFile \in {NoFile, OldFile}
    /\ now = 0
    /\ \/ instance = NoInstance /\ mysql = FreshMysql
       \/ /\ instance = OldInstance
          /\ mysql \in {FreshMysql,
                        [db |-> TRUE, tbl |-> TRUE, rows |-> SeededRows(PriceHigh, 0)],
                        [db |-> TRUE, tbl |-> TRUE, rows |-> OtherRows]}

Next == \E p \in ProvProcs : provision(p)

Spec == Init /\ [][Next]_vars

\* one run of the mutation driver, before or after a run of the provisioner:
\* the password file is missing, as the provisioner wrote it, or edited to end
\* with a newline; the instance is missing or there, and on it the table is
\* missing, seeded, or seeded and changed since
PartialRows ==
    {r \in SeededRows(PriceLow, 0) : r.id \in {1, 2, LastId}} \cup OtherRows

InitMut ==
    /\ config \in Configs
    /\ BqIdle
    /\ PwIdle
    /\ prov = [p \in ProvProcs |-> ProvOff]
    /\ pwFile \in {NoFile, OldFile,
                   [OldFile EXCEPT !.content = OldPassword \o <<"\n">>]}
    /\ \/ instance = NoInstance /\ mysql = FreshMysql
       \/ /\ instance = OldInstance
          /\ mysql \in {FreshMysql,
                        [db |-> TRUE, tbl |-> TRUE, rows |-> SeededRows(PriceHigh, 0)],
                        [db |-> TRUE, tbl |-> TRUE, rows |-> PartialRows]}
    /\ now = 1
    /\ mut = MutInitProc
    /\ running = TRUE

NextMut == mutate

SpecMut == InitMut /\ [][NextMut]_vars

\* main (103-189) without the handler: the steps the process takes by itself
mut_main ==
    \/ mut_install_handlers
    \/ mut_load_config
    \/ mut_credentials
    \/ mut_get_instance_ip
    \/ load_password
    \/ mut_table_keys
    \/ mut_connect
    \/ mut_cursor
    \/ mut_loop
    \/ update_select
    \/ update_execute
    \/ mut_sleep
    \/ mut_finally

\* a run of the driver after the provisioner's: settings complete, the password
\* file and the instance as the provisioner left them, and a table where some
\* of the ids 1-10 are found and the others are not
InitMutLoop ==
    /\ config = [present |-> TRUE, keys |-> AllKeys]
    /\ BqIdle
    /\ PwIdle
    /\ prov = [p \in ProvProcs |-> ProvOff]
    /\ pwFile = OldFile
    /\ instance = OldInstance
    /\ mysql = [db |-> TRUE, tbl |-> TRUE, rows |-> PartialRows]
    /\ now = 1
    /\ mut = MutInitProc
    /\ running = TRUE

\* That run where every call the process makes returns (the CLI call, the
\* connect, each database statement, the sleep): the process goes on as long
\* as it has a step to take. A signal may come at any time or never.
SpecMutFair == InitMutLoop /\ [][NextMut]_vars /\ WF_vars(mut_main)

\* One run of the provisioner and one run of the mutation driver at the same
\* time, on the same password file, instance and table: a first provisioning,
\* or a provisioning over what an earlier run left.
InitBoth ==
    /\ config = [present |-> TRUE, keys |-> AllKeys]
    /\ BqIdle
    /\ PwIdle
    /\ prov = [p \in ProvProcs |-> IF p = 1 THEN ProvInitProc ELSE ProvOff]
    /\ mut = MutInitProc
    /\ running = TRUE
    /\ now = 1
    /\ \/ pwFile = NoFile /\ instance = NoInstance /\ mysql = FreshMysql
       \/ /\ pwFile = OldFile
          /\ instance = OldInstance
          /\ mysql = [db |-> TRUE, tbl |-> TRUE, rows |-> SeededRows(PriceHigh, 0)]

\* The surroundings of the two runs, kept quiet so that their interleavings can
\* be followed in full: a readiness wait sleeps at most once, a server that
\* would let the seeding in refuses it at most twice (a seeding whose password
\* the server does not accept goes through all its attempts), the user cancels
\* a provisioner run only before its first command, and the random draws of
\* both programs are the ends of their ranges (price 500.0, ids 1 and 10).
Quiet ==
    /\ \A p \in ProvProcs :
         /\ prov[p].waited <= poll_delay
         /\ prov[p].attempt <= 1 \/ ~Accepts(prov[p].host, prov[p].password)
         /\ \A r \in prov[p].txn : r.price = round2(PriceHigh)
         /\ KeyboardInterrupt \in {prov[p].err, prov[p].pending} => prov[p].events = <<>>
    /\ mut.record_id \in {0, FirstId, LastId}
    /\ \A r \in mysql.rows : r.price = round2(PriceHigh)

NextBoth ==
    \/ (\E p \in ProvProcs : provision(p)) /\ Quiet'
    \/ mutate /\ Quiet'

SpecBoth == InitBoth /\ [][NextBoth]_vars

\* One run of the provisioner, or two at the same time, on the same password
\* file, instance and table: a first provisioning, or a provisioning over what
\* an earlier run left. The surroundings are kept quiet as above.
InitTwo ==
    /\ config = [present |-> TRUE, keys |-> AllKeys]
    /\ BqIdle
    /\ PwIdle
    /\ MutIdle
    /\ prov \in {[p \in ProvProcs |-> ProvInitProc],
                 [p \in ProvProcs |-> IF p = 1 THEN ProvInitProc ELSE ProvOff]}
    /\ now = 1
    /\ \/ pwFile = NoFile /\ instance = NoInstance /\ mysql = FreshMysql
       \/ /\ pwFile = OldFile
          /\ instance = OldInstance
          /\ mysql = [db |-> TRUE, tbl |-> TRUE, rows |-> SeededRows(PriceHigh, 0)]

NextTwo == (\E p \in ProvProcs : provision(p)) /\ Quiet'

SpecTwo == InitTwo /\ [][NextTwo]_vars

----------------------------------------------------------------------------
(* The claims *)

\* C1: in each of the three programs, a settings file that lacks a key the
\* program reads makes the program fail with the configuration error before
\* it has invoked the CLI, called a cloud client, connected to the database
\* or written the password file.
C1_FailsBeforeAnyEffect ==
    /\ \A b \in BqProcs : bq[b].err = KeyError => bq[b].calls = <<>>
    /\ \A p \in ProvProcs : prov[p].err = KeyError => prov[p].events = <<>>
    /\ mut.err = KeyError => mut.events = <<>>

\* the console of process p shows its generated password
Shown(p) ==
    \E line \in prov[p].console :
        \E k \in 1..Len(line) : line[k] = Str(prov[p].password)

\* C2: in every run of the provisioner, on either branch, the generated root
\* password is never written to the console.
C2_PasswordNeverOnConsole ==
    \A p \in ProvProcs : prov[p].password # <<>> => ~Shown(p)

Has(s, class) == \E k \in 1..Len(s) : s[k] \in class

\* C3: whatever the random source draws, generate_password() returns exactly
\* 24 characters, at least one of them an uppercase letter, one a lowercase
\* letter, one a digit and one a symbol of !@#$%^&*()_+-=, and every one of
\* them of these four classes.
C3_PasswordPolicy ==
    pwOut # <<>> =>
        /\ Len(pwOut) = 24
        /\ Has(pwOut, Uppercase) /\ Has(pwOut, Lowercase)
        /\ Has(pwOut, Digits) /\ Has(pwOut, Symbols)
        /\ \A k \in 1..Len(pwOut) :
             pwOut[k] \in Uppercase \cup Lowercase \cup Digits \cup Symbols

\* a password was generated from draws of which the 24 from the whole
\* alphabet held digits only
C3_Witness ==
    /\ pwOut # <<>>
    /\ \A k \in 1..Len(pwIn.raw) : pwIn.raw[k] \in Digits

\* the rows are the ten seeded ones: ids 1-10, row i with the i-th description
\* and a price of 10.00 to 500.00 (in cents)
IsSeeded(rows) ==
    /\ Cardinality(rows) = 10
    /\ Ids(rows) = 1..10
    /\ \A r \in rows : /\ r.description = descriptions[r.id]
                       /\ 1000 <= r.price /\ r.price <= 50000

\* C4: whenever the seeding step has completed successfully, whatever the
\* table held before, the table holds exactly the ten rows with ids 1-10, row
\* i with the i-th description and a price in [10.00, 500.00]; the rows are
\* inserted in the order of their ids into a table that holds no row.
C4_SeedingLeavesTenRows ==
    \A p \in ProvProcs :
        /\ prov[p].pc = "summary" \/ prov[p].exit = 0 => IsSeeded(mysql.rows)
        /\ prov[p].pc \in {"insert", "commit"} =>
             /\ Ids(prov[p].txn) = 1..(prov[p].i - 1)
             /\ Cardinality(prov[p].txn) = prov[p].i - 1
             /\ mysql.rows = {}

\* a run that found rows in the table, truncated it and seeded it has ended
C4_Witness ==
    /\ prov[1].exit = 0
    /\ \E k \in 1..Len(prov[1].events) : prov[1].events[k] = "sql_truncate"

\* the row of `rows` with this id
RowOf(rows, id) == CHOOSE r \in rows : r.id = id

\* C5: a call of update_random_record that picks an id of the table changes
\* that row only, and of it the price and updated_at only: no row is added or
\* removed, the other rows are as before, and the new price is in
\* [10.00, 500.00]; a call that picks an id that is not in the table changes
\* nothing and, raising nothing, returns the empty result.
C5_UpdateFrame ==
    [][/\ mut.pc = "update" /\ mut'.pc = "sleep" =>
            /\ mut.record_id \in Ids(mysql.rows)
            /\ Ids(mysql'.rows) = Ids(mysql.rows)
            /\ Cardinality(mysql'.rows) = Cardinality(mysql.rows)
            /\ \A r \in mysql.rows : r.id # mut.record_id => r \in mysql'.rows
            /\ LET old == RowOf(mysql.rows, mut.record_id)
                   new == RowOf(mysql'.rows, mut.record_id)
               IN /\ new.description = old.description
                  /\ new.created_at = old.created_at
                  /\ new.updated_at = now
                  /\ 1000 <= new.price /\ new.price <= 50000
            /\ mut'.ret = "dict"
       /\ mut.pc = "select" /\ mut'.pc # "select"
          /\ mut'.record_id \notin Ids(mysql.rows) =>
            /\ mysql' = mysql
            /\ mut'.pending = NoExc => mut'.pc = "sleep" /\ mut'.ret = "None"
            /\ mut'.pending \in {NoExc, OperationalError}
       /\ mut.pc = "select" => mysql' = mysql
      ]_vars

\* after one update, the second call has picked an id that is not in the table
C5_Witness ==
    /\ mut.pc = "sleep" /\ mut.iterations = 2
    /\ mut.update_count = 1 /\ mut.ret = "None"
    /\ \E r \in mysql.rows : r.updated_at > r.created_at

\* C6: once the signal handler has cleared the running flag, the loop starts
\* no mutation step (the one in progress ends), and when the process that
\* entered the loop has exited, its cursor and connection are closed.
C6_StopsAfterFlagCleared ==
    /\ [][~running => mut'.iterations = mut.iterations]_vars
    /\ [](mut.pc = "exit" /\ ~running /\ mut.cursor # "none" =>
            mut.cursor = "closed" /\ mut.conn = "closed")

\* the flag was cleared, the driver left the loop after its first iteration
\* and has exited
C6_Witness ==
    /\ ~running /\ mut.pc = "exit" /\ mut.exit = 0
    /\ mut.iterations = 1 /\ mut.update_count = 1
    /\ mut.conn = "closed" /\ mut.cursor = "closed"

\* C7: wait_for_instance_ready returns at the first poll that observes
\* RUNNABLE and polls no more; it polls only while less than 600 seconds have
\* passed, and when the budget ends without RUNNABLE observed (failed polls and
\* other states included) it raises the timeout error and does not return.
C7_ReadinessPoll ==
    \A p \in ProvProcs :
        /\ prov[p].pc \in {"wait_check", "wait_poll", "wait_sleep"} =>
             prov[p].observed # "RUNNABLE"
        /\ prov[p].pc = "wait_poll" => prov[p].waited < 600
        /\ prov[p].err = TimeoutError =>
             prov[p].waited >= 600 /\ prov[p].observed # "RUNNABLE"
        /\ (prov[p].pc = "patch_ip" /\ prov[p].site = 1) \/ prov[p].pc = "get_ip" =>
             prov[p].observed = "RUNNABLE"

\* the wait has timed out, the last poll having seen the instance pending
C7_Witness ==
    /\ prov[1].err = TimeoutError
    /\ prov[1].observed = "PENDING_CREATE"

\* C8: the seeding step attempts at most 10 connections, sleeps 10 seconds
\* between two attempts, attempts no more after the first success, and raises
\* the connection error only after the 10th failure in a row, with no sleep
\* after it and no SQL statement issued.
C8_ConnectionRetry ==
    \A p \in ProvProcs :
        /\ prov[p].connects <= 10
        /\ prov[p].pc = "connect" =>
             prov[p].connects = prov[p].attempt /\ prov[p].slept = 10 * prov[p].attempt
        /\ prov[p].pc = "retry_sleep" =>
             /\ prov[p].connects = prov[p].attempt + 1
             /\ prov[p].connects < 10
             /\ prov[p].slept = 10 * prov[p].attempt
        /\ prov[p].pc = "cursor" =>
             /\ prov[p].connects = prov[p].attempt + 1
             /\ prov[p].slept = 10 * prov[p].attempt
        /\ prov[p].err = InterfaceError =>
             /\ prov[p].connects = 10 /\ prov[p].slept = 90
             /\ prov[p].conn = "none"
             /\ \A k \in 1..Len(prov[p].events) :
                  prov[p].events[k] \notin {"connected", "sql_create_database"}

\* ten attempts have failed and the error has been raised
C8_Witness == prov[1].err = InterfaceError /\ prov[1].connects = 10

Called(b, call) == \E k \in 1..Len(bq[b].calls) : bq[b].calls[k] = call

\* C9: a call of create_dataset_if_not_exists (of create_table_if_not_exists)
\* that begins after another call for the same resource has reported success
\* and is not cut short by an exception finds the resource, reports success,
\* issues no creation request and leaves the resource as it found it.
C9_SecondCallIdempotent ==
    \A b \in BqProcs :
        /\ bq[b].dsPrior /\ bq[b].dsRet # "raised" =>
             /\ bq[b].dsRet = "True" \/ bq[b].pc = "ds_get_return"
             /\ ~Called(b, "create_dataset")
             /\ bqDataset.exists /\ bqDataset = bq[b].dsSeen
        /\ bq[b].tblPrior /\ bq[b].tblRet # "raised" =>
             /\ bq[b].tblRet = "True" \/ bq[b].pc = "tbl_get_return"
             /\ ~Called(b, "query")
             /\ bqTable.exists /\ bqTable = bq[b].tblSeen

\* one run created the dataset and the table, the other began each call after
\* that and has ended
C9_Witness ==
    /\ bq[1].exit = 0 /\ Called(1, "create_dataset") /\ Called(1, "query")
    /\ bq[2].exit = 0 /\ bq[2].dsPrior /\ bq[2].tblPrior

\* the user cancelled run b: a KeyboardInterrupt is what reached __main__
Cancelled(b) == bq[b].err = KeyboardInterrupt

\* the creation call of run b raised `e` and the function let it through:
\* the call is the run's last, main goes no further, and the run ends with
\* that error and status 1, unless the user cancels it on the way (the notice
\* and status 1, or the status of a SIGINT that arrives while __main__
\* reports)
Propagated(b, call, e) ==
    /\ bq[b].calls[Len(bq[b].calls)] = call
    /\ bq[b].err = e \/ Cancelled(b)
    /\ \/ bq[b].pc = "except"
       \/ bq[b].pc = "exit" /\ bq[b].exit = 1
       \/ bq[b].pc = "exit" /\ bq[b].exit = SigintStatus /\ Cancelled(b)

\* C10: of two runs that both found the dataset (the table) absent, the one
\* whose creation request is rejected because the resource exists reports
\* success and goes on like the other (the rejection never reaches __main__,
\* and the function returns True unless the user cancels the run inside it),
\* and one dataset and one table have been created when both have ended; any
\* other failure of a creation request leaves the function as that exception
\* and the run does not go on.
C10_ConflictIsSuccess ==
    /\ \A b \in BqProcs :
         /\ bq[b].dsExc = Conflict =>
              /\ bq[b].err # Conflict
              /\ bq[b].dsRet = "True" \/ (bq[b].dsRet = "raised" /\ Cancelled(b))
         /\ bq[b].tblExc = TableConflict =>
              /\ bq[b].err # TableConflict
              /\ bq[b].tblRet = "True" \/ (bq[b].tblRet = "raised" /\ Cancelled(b))
         /\ bq[b].dsExc = Forbidden =>
              bq[b].dsRet = "raised" /\ Propagated(b, "create_dataset", Forbidden)
         /\ bq[b].tblExc = Forbidden =>
              /\ bq[b].tblRet = "raised"
              /\ \/ Propagated(b, "query", Forbidden)
                 \/ Propagated(b, "job_result", Forbidden)
         /\ bq[b].tblExc = NotFound =>
              bq[b].tblRet = "raised" /\ Propagated(b, "job_result", NotFound)
    /\ bqCreated.dataset <= 1 /\ bqCreated.table <= 1
    /\ (\A b \in BqProcs : bq[b].exit = 0) =>
         /\ bqCreated = [dataset |-> 1, table |-> 1]
         /\ bqDataset.exists /\ bqTable.exists

\* both runs requested both creations, one was refused the dataset and one the
\* table, and both have ended with status 0
C10_Witness ==
    /\ \A b \in BqProcs : bq[b].exit = 0 /\ Called(b, "create_dataset") /\ Called(b, "query")
    /\ \E b \in BqProcs : bq[b].dsExc = Conflict
    /\ \E b \in BqProcs : bq[b].tblExc = TableConflict

InEvents(events, name) == \E k \in 1..Len(events) : events[k] = name

\* C11: with complete settings and no password file, the mutation
\* driver ends with the error that tells the operator to run the provisioner
\* first and with status 1, having attempted no database connection and made
\* no mutation.
C11_RunProvisionerFirst ==
    mut.pc = "exit" /\ ~pwFile.exists /\ config = [present |-> TRUE, keys |-> AllKeys] =>
        /\ mut.err = PasswordFileNotFound /\ mut.exit = 1
        /\ ~InEvents(mut.events, "connect") /\ mut.update_count = 0

\* C12: in every state of a provisioner run in which the password file holds
\* the generated password, whether the run created the file or overwrote an
\* existing one, the mode of the file is 0600.
C12_PasswordFileIsPrivate ==
    \A p \in ProvProcs :
        /\ prov[p].password # <<>>
        /\ pwFile.exists /\ pwFile.content = prov[p].password
        => pwFile.mode = "0600"

\* C13: each program ends with status 1 exactly when it ends because of an
\* error, an error raised inside the mutation loop included, and with status
\* 0 only on normal completion or, for the mutation driver, when the signal
\* handler has stopped the loop.
C13_ExitStatus ==
    /\ \A b \in BqProcs :
         bq[b].pc = "exit" =>
             /\ bq[b].exit \in {0, 1}
             /\ bq[b].exit = 1 <=> bq[b].err # NoExc
    /\ \A p \in ProvProcs :
         prov[p].pc = "exit" =>
             /\ prov[p].exit \in {0, 1}
             /\ prov[p].exit = 1 <=> (prov[p].err # NoExc \/ prov[p].pending # NoExc)
    /\ mut.pc = "exit" =>
         /\ mut.exit \in {0, 1}
         /\ mut.exit = 1 <=> (mut.err # NoExc \/ mut.pending # NoExc)
         /\ mut.exit = 0 => ~running

\* the events of a provisioner run that act on the instance
InstanceOps ==
    {"describe_name", "set_password", "create", "patch_assign_ip",
     "patch_authorized_networks", "describe_ip", "ready"}

\* C14: with a provisioner run and a mutation driver running at the same time
\* on the same password file, the provisioner writes the file once, before any
\* operation on the instance, and the password the mutation driver has read
\* from the file is the one the instance accepts when the driver connects
\* with it.
C14_SharedPasswordFile ==
    /\ \A p \in ProvProcs :
         LET ev == prov[p].events
         IN /\ Cardinality({k \in 1..Len(ev) : ev[k] = "file_write"}) <= 1
            /\ \A k \in 1..Len(ev) :
                 ev[k] \in InstanceOps => \E j \in 1..(k - 1) : ev[j] = "file_write"
    /\ mut.pc = "connect" /\ instance.exists => mut.password = instance.rootPw

\* C15: a CLI invocation of the provisioner other than the
\* instance-existence probe that returns a non-zero status raises an error and
\* aborts the run: the run is at the raise of run_gcloud, in a handler of
\* __main__ or ended with a status other than 0, and does not go on.
C15_OnlyProbeUnchecked ==
    \A p \in ProvProcs :
        prov[p].rc # 0 /\ prov[p].cmd # "describe_name" =>
            /\ prov[p].pc \in {"gcloud_failed", "except", "exit"}
            /\ prov[p].exit # 0
            /\ prov[p].pc # "gcloud_failed" =>
                 prov[p].err \in {RuntimeError, KeyboardInterrupt}

\* the positions of an event in a run's events
At(events, name) == {k \in 1..Len(events) : events[k] = name}

\* C16 as stated: of the two calls a run issues at most one, create only if
\* the instance was not there when probed and set-password only if it was.
C16_CreateIffAbsent ==
    \A p \in ProvProcs :
        /\ Cardinality(At(prov[p].events, "create")
                       \cup At(prov[p].events, "set_password")) <= 1
        /\ At(prov[p].events, "create") # {} => prov[p].probed = "absent"
        /\ At(prov[p].events, "set_password") # {} => prov[p].probed = "present"

\* the user cancelled run p right after the probe, before either call
CancelledAfterProbe(p) ==
    /\ prov[p].err = KeyboardInterrupt
    /\ prov[p].events # <<>>
    /\ prov[p].events[Len(prov[p].events)] = "describe_name"

\* C16, amended: a provisioner run that has probed the instance (the probe has
\* returned: exists is "True" or "False"), and was not cancelled by the user
\* right there, issues one of
\* the two calls and never both: set-password (and no create) exactly when
\* the probe's describe returned status 0, which it does only if the instance
\* is there, and create exactly when it returned another status, which it
\* does whenever the instance is not there; on the create branch a readiness
\* wait has ended before any patch, on the other branch no poll is made
\* before the patches.
C16_CreateOrSetPassword ==
    \A p \in ProvProcs :
        LET ev == prov[p].events
            created == At(ev, "create") # {}
            reset == At(ev, "set_password") # {}
        IN /\ Cardinality(At(ev, "create") \cup At(ev, "set_password")) <= 1
           /\ created \/ reset => At(ev, "describe_name") # {}
           /\ created <=> /\ prov[p].exists = "False" /\ prov[p].pc # "create"
                           /\ ~CancelledAfterProbe(p)
           /\ reset <=> /\ prov[p].exists = "True" /\ prov[p].pc # "set_password"
                         /\ ~CancelledAfterProbe(p)
           /\ prov[p].exists = "True" => prov[p].probed = "present"
           /\ prov[p].probed = "absent" /\ prov[p].exists # "none" =>
                prov[p].exists = "False"
           /\ created =>
                \A k \in At(ev, "patch_assign_ip") :
                    \E j \in At(ev, "ready") : j < k
           /\ reset =>
                /\ \A k \in At(ev, "ready") :
                     \E j \in At(ev, "patch_authorized_networks") : j < k
                /\ prov[p].pc = "patch_ip" => prov[p].observed = ""
           /\ prov[p].pc \in {"wait_check", "wait_poll", "wait_sleep"}
              /\ prov[p].site = 1 => created

\* a run that did not find the instance has created it, waited for it and
\* issued the first patch
C16_Witness ==
    /\ prov[1].probed = "absent"
    /\ At(prov[1].events, "create") # {}
    /\ At(prov[1].events, "patch_assign_ip") # {}

\* the seeding of run p has attempted a connection
Attempted(p) == prov[p].connects > 0 \/ prov[p].conn # "none"

\* C17: a provisioner run attempts a seeding connection only after the
\* assign-IP patch, the authorized-networks patch, a readiness wait that saw
\* RUNNABLE and the retrieval of the IP, in this order; a run in which one of
\* them failed or the wait timed out attempts none.
C17_SeedingAfterNetworkSetup ==
    \A p \in ProvProcs :
        LET ev == prov[p].events
        IN /\ Attempted(p) =>
                \E a \in At(ev, "patch_assign_ip"),
                   b \in At(ev, "patch_authorized_networks"),
                   c \in At(ev, "ready"), d \in At(ev, "describe_ip") :
                    /\ a < b /\ b < c /\ c < d
                    /\ instance.assignIp /\ "0.0.0.0/0" \in instance.authNets
           /\ prov[p].pc \in {"connect", "retry_sleep"} =>
                At(ev, "describe_ip") # {} /\ prov[p].observed = "RUNNABLE"
           /\ prov[p].err \in {RuntimeError, TimeoutError} =>
                ~Attempted(p) /\ At(ev, "connected") = {}

\* on the branch of the existing instance, the first connection attempt has
\* been made and has succeeded
C17_Witness ==
    /\ prov[1].pc = "cursor" /\ prov[1].connects = 1
    /\ At(prov[1].events, "set_password") # {}

\* the committed table holds ten rows, of ids 1 to 10
HoldsTen(rows) == Cardinality(rows) = 10 /\ Ids(rows) = 1..10

\* C18: once a seeding has committed its ten rows, the table that other
\* connections see holds exactly ten rows of ids 1-10 in every later state,
\* whatever mutation steps and further seeding steps follow (failed ones
\* included), and no step of the mutation driver adds or removes a row.
C18_TenRowsForever ==
    [][/\ HoldsTen(mysql.rows) => HoldsTen(mysql'.rows)
       /\ mut' # mut => Ids(mysql'.rows) = Ids(mysql.rows)
      ]_vars

\* C19: when the seeding step has obtained a connection, the connection and
\* the cursor are closed by the time the step has returned or raised,
\* whichever of its statements failed.
C19_SeedingReleasesConnection ==
    \A p \in ProvProcs :
        prov[p].pc \in {"summary", "exit"} /\ prov[p].conn # "none" =>
            prov[p].conn = "closed" /\ prov[p].cursor # "open"

\* C20: when a statement of a mutation step has raised a database error, the
\* loop is left at once, and the one step the driver takes after it closes the
\* cursor and the connection and prints the count of the updates made so far:
\* no further SELECT or UPDATE and no further connect is issued.
C20_DatabaseErrorEndsLoop ==
    [][/\ mut'.pending # NoExc => mut'.pc \in {"finally", "exit"}
       /\ mut.pending # NoExc /\ mut' # mut =>
            /\ mut.pc = "finally" /\ mut'.pc = "exit"
            /\ mut'.events = Append(mut.events, "closed")
            /\ mut'.cursor = "closed" /\ mut'.conn = "closed"
            /\ mut'.total = mut.update_count
      ]_vars

\* the second mutation step failed after the first one had updated a row, and
\* the driver has exited with the count 1 printed
C20_Witness ==
    /\ mut.pc = "exit" /\ mut.pending # NoExc
    /\ mut.update_count = 1 /\ mut.total = 1
    /\ mut.cursor = "closed" /\ mut.conn = "closed"

LoopPcs == {"loop", "select", "update", "sleep"}

Rank(pc) ==
    CASE pc = "select" -> 1
      [] pc = "update" -> 2
      [] pc = "sleep" -> 3
      [] pc = "loop" -> 4
      [] pc = "finally" -> 5
      [] pc = "exit" -> 6
      [] OTHER -> 0

\* C21: a signal delivered while the loop runs only clears the flag: it leaves
\* the driver's step and the table as they are (no statement is aborted).
\* From then on every step of the driver moves forward in the order SELECT,
\* UPDATE, sleep, loop test, release, exit, so at most the step in progress
\* and one sleep are completed, and the driver eventually exits.
C21_SignalEndsLoop ==
    /\ [][/\ running' # running => mut' = mut /\ mysql' = mysql
          /\ ~running /\ mut.pc \in LoopPcs /\ mut' # mut =>
                /\ Rank(mut'.pc) > Rank(mut.pc)
                /\ mut'.iterations = mut.iterations
         ]_vars
    /\ (~running /\ mut.pc \in LoopPcs ~> mut.pc = "exit")

\* the signal came during the second iteration, whose update was completed,
\* and the driver has exited with both updates counted
C21_Witness ==
    /\ ~running /\ mut.pc = "exit" /\ mut.exit = 0 /\ mut.pending = NoExc
    /\ mut.iterations = 2 /\ mut.update_count = 2 /\ mut.total = 2

\* the driver has exited and the flag was cleared before the loop's first test
StoppedBeforeLoop(m, flag) == m.pc = "exit" /\ ~flag /\ m.iterations = 0

\* the run made no mutation step, opened its connection and released it,
\* printed the count 0 and exited with status 0
CleanEmptyRun(m) ==
    /\ ~InEvents(m.events, "sql_select") /\ ~InEvents(m.events, "sql_update")
    /\ InEvents(m.events, "connect")
    /\ m.conn = "closed" /\ m.cursor = "closed"
    /\ m.update_count = 0 /\ m.total = 0
    /\ m.exit = 0

\* C23: the flag never goes back to true, and a driver whose flag
\* was cleared between the installation of the handlers and the loop's first
\* test exits after a run with no mutation step, a connection opened and
\* released, the count 0 printed and status 0.
C23_SignalBeforeLoop ==
    [][/\ ~running => ~running'
       /\ StoppedBeforeLoop(mut', running') => CleanEmptyRun(mut')
      ]_vars

\* the provisioner runs that were started
Started == {p \in ProvProcs : prov[p].pc # "off"}

\* C22: once every provisioner run that was started has exited with status
\* 0, the password file holds the root password the instance accepts.
C22_FileMatchesInstance ==
    (\A p \in Started : prov[p].pc = "exit" /\ prov[p].exit = 0) =>
        pwFile.exists /\ pwFile.content = instance.rootPw

====
